---- MODULE Spec2Model ----
(***************************************************************************)
(* uhyve: the KVM monitor of HermitCore (tools/uhyve.c).                   *)
(*                                                                         *)
(* One host thread per guest vCPU.  Thread 0 is the main thread: it runs   *)
(* uhyve_init (which ends in vcpu_init(0)) and then uhyve_loop, which      *)
(* spawns the peer threads and enters vcpu_loop.  Every peer runs          *)
(* uhyve_thread = vcpu_init(id); vcpu_loop().                              *)
(*                                                                         *)
(* Sizes and guest physical addresses are counted in KiB; every address    *)
(* the model uses is KiB aligned and every hypercall record is smaller     *)
(* than 1 KiB, so "the record at a lies in [0, guest_size)" is a < size.   *)
(***************************************************************************)
EXTENDS Integers, Sequences, FiniteSets, TLC

\* ---------------------------------------------------------------- bounds
MaxCores == 2

Threads == 0 .. (MaxCores - 1)
Peers   == 1 .. (MaxCores - 1)
NoThread == 0 - 1

\* ------------------------------------------------------ program constants
GUEST_PAGE_SIZE    == 2048       \* 0x200000 bytes, in KiB
KVM_32BIT_MAX_MEM_SIZE == 4194304  \* 1 << 32 bytes, in KiB
KVM_32BIT_GAP_SIZE == 786432     \* 768 << 20 bytes, in KiB
KVM_32BIT_GAP_START == KVM_32BIT_MAX_MEM_SIZE - KVM_32BIT_GAP_SIZE
DefaultGuestSize   == 524288     \* 0x20000000 bytes, in KiB
MaxPdeEntries      == 512
BOOT_GDT           == 4          \* 0x1000 bytes, in KiB
BOOT_PML4          == 64         \* 0x10000 bytes, in KiB

UHYVE_PORT_WRITE    == 1177      \* 0x499
UHYVE_PORT_OPEN     == 1280      \* 0x500
UHYVE_PORT_CLOSE    == 1281      \* 0x501
UHYVE_PORT_READ     == 1282      \* 0x502
UHYVE_PORT_EXIT     == 1283      \* 0x503
UHYVE_PORT_LSEEK    == 1284      \* 0x504
UHYVE_PORT_NETINFO  == 1285      \* 0x505
UHYVE_PORT_NETWRITE == 1286      \* 0x506
UHYVE_PORT_NETREAD  == 1287      \* 0x507
UnknownPort         == 1016      \* 0x3f8, a port the monitor does not serve

EXIT_FAILURE == 1

\* values the ELF header of a HermitCore executable must hold
ELFCLASS64      == 2
HERMIT_ELFOSABI == 255           \* 0xFF
ET_EXEC         == 2
EM_X86_64       == 62
SIGABRT_STATUS == 128 + 6        \* 128 + SIGABRT, as a shell reports it
SIGSEGV_STATUS == 128 + 11       \* 128 + SIGSEGV

\* host descriptors: 0,1,2 are stdio; the others are what open/ioctl return
StdFds    == {0, 1, 2}
KvmFd     == 3
VmFd      == 4
VcpuFdBase == 5
TapFd     == VcpuFdBase + MaxCores
VcpuFdOf(id) == VcpuFdBase + id
VcpuFdInitial == 1               \* static __thread int vcpufd = 1
FileFd == 20                     \* a descriptor an OPEN hypercall returned

ServedPorts == {UHYVE_PORT_WRITE, UHYVE_PORT_OPEN, UHYVE_PORT_CLOSE,
                UHYVE_PORT_READ, UHYVE_PORT_EXIT, UHYVE_PORT_LSEEK,
                UHYVE_PORT_NETINFO, UHYVE_PORT_NETWRITE, UHYVE_PORT_NETREAD}

\* ----------------------------------------------------------------- inputs
\* HERMIT_MEM after memparse (KiB): 3M (not a multiple of 2M), the default
\* (also the value when unset), 768M (the first size the check in
\* uhyve_init rejects), 1G + 2M (one page more than a single page
\* directory maps) and the start of the 32-bit PCI gap.
GuestSizes == {3072, DefaultGuestSize, KVM_32BIT_GAP_SIZE,
               GUEST_PAGE_SIZE * (MaxPdeEntries + 1), KVM_32BIT_GAP_START}
\* what load_kernel finds at path: a HermitCore executable, one without a
\* PT_LOAD segment, a path open() fails on, a file pread() fails on, and
\* files whose ELF header fails one of the five checks
Images == {"valid", "noload", "noopen", "readfail", "bad_magic", "bad_class",
           "bad_osabi", "bad_type", "bad_machine"}
\* guest physical addresses a guest may put in an OUT payload or a record
GuestAddrs(size) == {8, size}
\* the int a guest stores for the EXIT hypercall
ExitValues == {42, 256}
\* errno of a failed KVM_RUN
RunErrnos == {"EINTR", "EFAULT", "EIO"}
\* exit reasons of a successful KVM_RUN
ExitReasons == {"HLT", "MMIO", "IO", "FAIL_ENTRY", "INTERNAL_ERROR",
                "SHUTDOWN", "OTHER"}

VARIABLES
  pc,            \* position of every thread
  proc,          \* the process: [st, code, by]
  xowner,        \* the thread running the exit handlers, or NoThread
  xstatus,       \* the argument of the exit() call that xowner made
  xval,          \* the int at guest_mem + data when that call was made by
                 \* the EXIT hypercall, NoArg otherwise
  xi,            \* loop index i of uhyve_exit
  sigInstalls,   \* number of signal(SIGTERM, sig_func) calls
  atexitRegs,    \* number of atexit(uhyve_exit) calls
  guest_size,
  kvm, vmfd, netfd,
  vcpufd,        \* thread local
  openFds,       \* descriptors open in the process
  image,         \* what the path names
  mboot,         \* "NULL" or "set" (first PT_LOAD segment)
  gate,          \* *(uint32_t*)(mboot + 0x20)
  apicid,        \* *(uint32_t*)(mboot + 0x30)
  coresField,    \* *(uint32_t*)(mboot + 0x24)
  ncores,
  vcpu_threads,  \* NULL (<< >>) or [0..ncores-1 -> BOOLEAN], TRUE: a handle
  spawnI,        \* loop index i of uhyve_loop
  sregs,         \* static struct kvm_sregs of setup_system
  sigPending,    \* SIGTERM sent to the thread and not yet handled
  req,           \* per thread: payload of the I/O exit being served, or NoData
  lastExit,      \* the latest event a thread has acted on, and how
  loopRet,       \* per thread: return value of vcpu_loop, NoRet before
  hist,          \* observations used by the properties
  ld,            \* load_kernel on its own: file, guest memory, loop state
  hc,            \* a hypercall handler on its own: record, host calls
  cfg,           \* HERMIT_MEM on its own: string, guest_size in 64 bits
  lay,           \* the stores into guest memory on their own: extents
  fr             \* a hypercall handler on its own: record in guest memory

vars == <<pc, proc, xowner, xstatus, xval, xi, sigInstalls, atexitRegs,
          guest_size, kvm, vmfd, netfd, vcpufd, openFds, image, mboot, gate,
          apicid,
          coresField, ncores, vcpu_threads, spawnI, sregs, sigPending, req,
          lastExit, loopRet, hist, ld, hc, cfg, lay, fr>>

\* the monitor's state without the two stand-alone views
mainVars == <<pc, proc, xowner, xstatus, xval, xi, sigInstalls, atexitRegs,
              guest_size, kvm, vmfd, netfd, vcpufd, openFds, image, mboot,
              gate, apicid, coresField, ncores, vcpu_threads, spawnI, sregs,
              sigPending, req, lastExit, loopRet, hist>>
aloneVars == <<ld, hc, cfg, lay, fr>>
LdIdle == [pc |-> "idle"]
HcIdle == [pc |-> "idle"]
CfgIdle == [pc |-> "idle"]
LayIdle == [pc |-> "idle"]
FrIdle == [pc |-> "idle"]

NoRet == 0 - 1
NoArg == 0 - 1000
NoPort == 0 - 1
NoData == 0 - 1
\* lastExit: thread t acted on event out (an outcome of KVM_RUN, with the
\* port of an I/O exit and the int an EXIT hypercall found in guest memory,
\* or the name of a failed call) and passed arg to exit(), NoArg if it did
\* not call exit()
Event(out, port, val) ==
  [t |-> NoThread, out |-> out, port |-> port, val |-> val, arg |-> NoArg]
Failed(call) == Event(call, NoPort, 0)
NoDispatch == Event("none", NoPort, 0)
Dispatched(t, ev, arg) == [ev EXCEPT !.t = t, !.arg = arg]
\* a thread that moves on takes its entry out of lastExit
Forget(t) == IF lastExit.t = t THEN NoDispatch ELSE lastExit

Running == proc.st = "running"
Terminated(t) == pc[t] \in {"returned", "exited"}
Alive(t) == pc[t] \notin {"unborn", "returned", "exited"}


\* ------------------------------------------------ process termination
\* a step of thread t that stays in the process
Goto(t, l) ==
  /\ pc' = [pc EXCEPT ![t] = l]
  /\ UNCHANGED <<proc, xowner, xstatus, xval, xi, lastExit>>

\* exit(s) called by thread t on event ev.  The first caller runs the atexit
\* handler uhyve_exit.  A call while another thread is inside exit() is
\* undefined behaviour (exit is not reentrant): the C library either lets
\* the second caller skip the handlers that were already taken and end the
\* process at once, or makes it wait for the first caller.
exit(t, s, ev) ==
  /\ lastExit' = Dispatched(t, ev, s)
  /\ IF atexitRegs = 0
       THEN /\ proc' = [st |-> "exited", code |-> s % 256, by |-> t]
            /\ UNCHANGED <<pc, xowner, xstatus, xval, xi>>
       ELSE IF xowner = NoThread
         THEN /\ xowner' = t
              /\ xstatus' = s
              /\ xval' = IF ev.port = UHYVE_PORT_EXIT THEN ev.val ELSE NoArg
              /\ xi' = 0
              /\ pc' = [pc EXCEPT ![t] = "x_loop"]
              /\ UNCHANGED proc
         ELSE \/ /\ proc' = [st |-> "exited", code |-> s % 256, by |-> t]
                 /\ UNCHANGED <<pc, xowner, xstatus, xval, xi>>
              \/ /\ pc' = [pc EXCEPT ![t] = "x_blocked"]
                 /\ UNCHANGED <<proc, xowner, xstatus, xval, xi>>

\* err(1, ...) prints and calls exit(1)
err(t, ev) == exit(t, 1, ev)

\* a failed assert() calls abort(): SIGABRT, no atexit handler runs
abort(t, ev) ==
  /\ proc' = [st |-> "signaled", code |-> SIGABRT_STATUS, by |-> t]
  /\ lastExit' = Dispatched(t, ev, NoArg)
  /\ UNCHANGED <<pc, xowner, xstatus, xval, xi>>

\* an access through an invalid pointer that the host does not map
segv(t, ev) ==
  /\ proc' = [st |-> "signaled", code |-> SIGSEGV_STATUS, by |-> t]
  /\ lastExit' = Dispatched(t, ev, NoArg)
  /\ UNCHANGED <<pc, xowner, xstatus, xval, xi>>

\* kvm_ioctl(fd, cmd, arg): returns the ioctl's result, and calls err(1) when
\* the ioctl returns -1, whatever errno is
kvm_ioctl(t, cmd, failed, l) ==
  IF failed THEN err(t, Failed(cmd)) ELSE Goto(t, l)

\* ------------------------------------------------------------ uhyve_init
initVars == <<sigInstalls, atexitRegs, guest_size, kvm, vmfd, image, mboot,
              gate, apicid, coresField>>
smpVars  == <<ncores, vcpu_threads, spawnI, netfd>>
cpuVars  == <<vcpufd, sregs, sigPending, req, loopRet>>

\* an uhyve_init that goes on without installing the SIGTERM handler
uhyve_init_signal_skipped ==
  /\ Running /\ pc[0] = "signal"
  /\ Goto(0, "atexit")
  /\ UNCHANGED <<initVars, openFds, hist>>
  /\ UNCHANGED <<smpVars, cpuVars>>
  /\ UNCHANGED aloneVars

\* signal(SIGTERM, sig_func);
uhyve_init_signal ==
  /\ Running /\ pc[0] = "signal"
  /\ sigInstalls' = sigInstalls + 1
  /\ Goto(0, "atexit")
  /\ UNCHANGED <<atexitRegs, guest_size, kvm, vmfd, image, mboot, gate,
                 apicid, coresField, openFds, hist>>
  /\ UNCHANGED <<smpVars, cpuVars>>
  /\ UNCHANGED aloneVars

uhyve_init_atexit ==
  /\ Running /\ pc[0] = "atexit"
  /\ atexitRegs' = atexitRegs + 1
  /\ Goto(0, "memparse")
  /\ UNCHANGED <<sigInstalls, guest_size, kvm, vmfd, image, mboot, gate,
                 apicid, coresField, openFds, hist>>
  /\ UNCHANGED <<smpVars, cpuVars>>
  /\ UNCHANGED aloneVars

\* str = getenv("HERMIT_MEM"); if (str) guest_size = memparse(str);
uhyve_init_memparse ==
  /\ Running /\ pc[0] = "memparse"
  /\ \E s \in GuestSizes : guest_size' = s
  /\ Goto(0, "open_kvm")
  /\ UNCHANGED <<sigInstalls, atexitRegs, kvm, vmfd, image, mboot, gate,
                 apicid, coresField, openFds, hist>>
  /\ UNCHANGED <<smpVars, cpuVars>>
  /\ UNCHANGED aloneVars

\* kvm = open("/dev/kvm"); KVM_GET_API_VERSION must be 12
uhyve_init_open_kvm ==
  /\ Running /\ pc[0] = "open_kvm"
  /\ \E outcome \in {"ok", "no_kvm", "bad_version"} :
       CASE outcome = "ok" ->
              /\ kvm' = KvmFd
              /\ openFds' = openFds \cup {KvmFd}
              /\ Goto(0, "create_vm")
         [] outcome = "no_kvm" ->
              /\ err(0, Failed("open"))
              /\ UNCHANGED <<kvm, openFds>>
         [] outcome = "bad_version" ->
              /\ kvm' = KvmFd
              /\ openFds' = openFds \cup {KvmFd}
              /\ err(0, Failed("KVM_GET_API_VERSION"))
  /\ UNCHANGED <<sigInstalls, atexitRegs, guest_size, vmfd, image, mboot,
                 gate, apicid, coresField, hist>>
  /\ UNCHANGED <<smpVars, cpuVars>>
  /\ UNCHANGED aloneVars

\* vmfd = kvm_ioctl(kvm, KVM_CREATE_VM, 0)
uhyve_init_create_vm ==
  /\ Running /\ pc[0] = "create_vm"
  /\ \E failed \in BOOLEAN :
       /\ kvm_ioctl(0, "KVM_CREATE_VM", failed, "size_check")
       /\ vmfd' = IF failed THEN vmfd ELSE VmFd
       /\ openFds' = IF failed THEN openFds ELSE openFds \cup {VmFd}
  /\ UNCHANGED <<sigInstalls, atexitRegs, guest_size, kvm, image, mboot,
                 gate, apicid, coresField, hist>>
  /\ UNCHANGED <<smpVars, cpuVars>>
  /\ UNCHANGED aloneVars

\* assert(guest_size < KVM_32BIT_GAP_SIZE)
SizeCheck(size) == size < KVM_32BIT_GAP_SIZE

\* the assert, then guest_mem = mmap(NULL, guest_size, ...)
uhyve_init_mmap ==
  /\ Running /\ pc[0] = "size_check"
  /\ IF ~SizeCheck(guest_size)
       THEN abort(0, Failed("assert"))
       ELSE \E failed \in BOOLEAN :
              IF failed THEN err(0, Failed("mmap")) ELSE Goto(0, "load_kernel")
  /\ UNCHANGED <<initVars, openFds, hist>>
  /\ UNCHANGED <<smpVars, cpuVars>>
  /\ UNCHANGED aloneVars

\* the ELF header of an image: e_ident[EI_MAG0..3] (TRUE: "\177ELF"),
\* e_ident[EI_CLASS], e_ident[EI_OSABI], e_type, e_machine
ElfHeader(img) ==
  [magic   |-> img # "bad_magic",
   class   |-> IF img = "bad_class" THEN ELFCLASS64 - 1 ELSE ELFCLASS64,
   osabi   |-> IF img = "bad_osabi" THEN 0 ELSE HERMIT_ELFOSABI,
   type    |-> IF img = "bad_type" THEN ET_EXEC + 1 ELSE ET_EXEC,
   machine |-> IF img = "bad_machine" THEN EM_X86_64 + 121 ELSE EM_X86_64]

\* the check "is a HermitCore file" of load_kernel
HeaderOk(hdr) ==
  /\ hdr.magic
  /\ hdr.class = ELFCLASS64
  /\ hdr.osabi = HERMIT_ELFOSABI
  /\ hdr.type = ET_EXEC
  /\ hdr.machine = EM_X86_64

\* an image the spec wants rejected: it cannot be read, or its header fails
\* a check
Rejected(img) ==
  img \in {"noopen", "readfail"} \/ ~HeaderOk(ElfHeader(img))

\* return value of load_kernel: -1 only when open() fails; a failed pread,
\* a header that fails the check and a failed malloc all jump to out, which
\* returns 0
LoadKernelReturn(img) == IF img = "noopen" THEN 0 - 1 ELSE 0

\* load_kernel reaches the segment loop and finds a PT_LOAD segment
LoadsSegment(img) ==
  /\ img \notin {"noopen", "readfail", "noload"}
  /\ HeaderOk(ElfHeader(img))

\* if (load_kernel(guest_mem, path) != 0) exit(EXIT_FAILURE);
\* mboot and klog are set by the first PT_LOAD segment; the gate counter at
\* mboot + 0x20 keeps the bytes of the image.
load_kernel ==
  /\ Running /\ pc[0] = "load_kernel"
  /\ \E img \in Images :
       /\ image' = img
       /\ IF LoadKernelReturn(img) # 0
            THEN /\ exit(0, EXIT_FAILURE, Failed("load_kernel"))
                 /\ UNCHANGED <<mboot, gate, apicid, coresField>>
            ELSE /\ Goto(0, "set_region")
                 /\ IF LoadsSegment(img)
                      THEN /\ mboot' = "set"
                           /\ \E g \in 0 .. (MaxCores - 1) : gate' = g
                           /\ coresField' = 1
                           /\ apicid' = 0
                      ELSE UNCHANGED <<mboot, gate, apicid, coresField>>
  /\ hist' = [hist EXCEPT !.orderly = (mboot' = "set" /\ gate' = 0)]
  /\ UNCHANGED <<sigInstalls, atexitRegs, guest_size, kvm, vmfd, openFds>>
  /\ UNCHANGED <<smpVars, cpuVars>>
  /\ UNCHANGED aloneVars

\* uhyve_init returning 0 without the call of vcpu_init(0)
uhyve_init_region_noBoot ==
  /\ Running /\ pc[0] = "set_region"
  /\ \E failed \in BOOLEAN :
       kvm_ioctl(0, "KVM_SET_USER_MEMORY_REGION", failed, "main_init_done")
  /\ UNCHANGED <<initVars, openFds, hist>>
  /\ UNCHANGED <<smpVars, cpuVars>>
  /\ UNCHANGED aloneVars

\* KVM_SET_USER_MEMORY_REGION, KVM_CREATE_IRQCHIP, then return vcpu_init(0)
uhyve_init_region ==
  /\ Running /\ pc[0] = "set_region"
  /\ \E failed \in BOOLEAN :
       kvm_ioctl(0, "KVM_SET_USER_MEMORY_REGION", failed, "gate")
  /\ UNCHANGED <<initVars, openFds, hist>>
  /\ UNCHANGED <<smpVars, cpuVars>>
  /\ UNCHANGED aloneVars


\* ------------------------------------------------------------- vcpu_init
\* a gate that lets a thread through one count early
GateOpen_early(v, id) == ~(v + 1 < id)

\* a gate that asks for more than the thread's id
GateOpen_strict(v, id) == v > id

\* no gate at all
GateOpen_open(v, id) == TRUE

\* loop condition of the gate: while (*(mboot + 0x20) < id) pthread_yield();
GateOpen(v, id) == ~(v < id)

\* one evaluation of the gate's loop condition by thread t.  With mboot
\* still NULL (no PT_LOAD segment was loaded) the read is through address
\* 0x20, which no process maps.
vcpu_init_gate(t) ==
  /\ Running /\ pc[t] = "gate"
  /\ IF mboot = "NULL"
       THEN segv(t, Failed("mboot")) /\ UNCHANGED hist
       ELSE IF GateOpen(gate, t)
         THEN /\ Goto(t, "write_id")
              /\ UNCHANGED hist
         ELSE /\ Goto(t, "gate")
              /\ hist' = IF t = 0 THEN [hist EXCEPT !.bootWaited = TRUE]
                         ELSE hist
  /\ UNCHANGED <<initVars, openFds>>
  /\ UNCHANGED <<smpVars, cpuVars>>
  /\ UNCHANGED aloneVars

\* *(mboot + 0x30) = id; clflush(mboot + 0x30);
vcpu_init_write_id(t) ==
  /\ Running /\ pc[t] = "write_id"
  /\ apicid' = t
  /\ Goto(t, "create_vcpu")
  /\ UNCHANGED <<sigInstalls, atexitRegs, guest_size, kvm, vmfd, image,
                 mboot, gate, coresField, openFds, hist>>
  /\ UNCHANGED <<smpVars, cpuVars>>
  /\ UNCHANGED aloneVars

\* vcpufd = kvm_ioctl(vmfd, KVM_CREATE_VCPU, id);
vcpu_init_create(t) ==
  /\ Running /\ pc[t] = "create_vcpu"
  /\ \E failed \in BOOLEAN :
       /\ kvm_ioctl(t, "KVM_CREATE_VCPU", failed, "setup_system")
       /\ vcpufd' = IF failed THEN vcpufd
                    ELSE [vcpufd EXCEPT ![t] = VcpuFdOf(t)]
       /\ openFds' = IF failed THEN openFds ELSE openFds \cup {VcpuFdOf(t)}
  /\ hist' = [hist EXCEPT !.created = Append(@, t)]
  /\ UNCHANGED <<initVars, smpVars>>
  /\ UNCHANGED <<sregs, sigPending, req, loopRet>>
  /\ UNCHANGED aloneVars

\* a setup_system_page_tables without its asserts
PageTableChecks_none(size) == TRUE

\* the two asserts of setup_system_page_tables
PageTableChecks(size) ==
  /\ size % GUEST_PAGE_SIZE = 0
  /\ size <= GUEST_PAGE_SIZE * MaxPdeEntries

\* a setup_system_page_tables that loads CR3 with the next table's address
Cr3AfterSetup_pdpte == BOOT_PML4 + 4

\* sregs->cr3 = BOOT_PML4;
Cr3AfterSetup == BOOT_PML4

\* the register values the static sregs holds in each of its stages: zero
\* as static storage, then what KVM_GET_SREGS gave with the GDT of
\* setup_system_gdt, then with the page tables and long mode as well
SregsValue(stage) ==
  [gdt_base |-> IF stage = "unset" THEN 0 ELSE BOOT_GDT,
   cr3      |-> IF stage = "complete" THEN Cr3AfterSetup ELSE 0,
   paging   |-> stage = "complete"]

\* setup_system, id == 0, first half: KVM_GET_SREGS fills the static sregs,
\* setup_system_gdt writes the GDT and the segment registers
setup_system_gdt ==
  /\ Running /\ pc[0] = "setup_system"
  /\ \E failed \in BOOLEAN :
       /\ kvm_ioctl(0, "KVM_GET_SREGS", failed, "setup_pt")
       /\ sregs' = IF failed THEN sregs ELSE "partial"
  /\ UNCHANGED <<initVars, openFds, hist, smpVars>>
  /\ UNCHANGED <<vcpufd, sigPending, req, loopRet>>
  /\ UNCHANGED aloneVars

\* setup_system, id == 0, second half: setup_system_page_tables (its two
\* asserts first), setup_system_64bit, then KVM_SET_SREGS
setup_system_page_tables ==
  /\ Running /\ pc[0] = "setup_pt"
  /\ IF ~PageTableChecks(guest_size)
       THEN abort(0, Failed("assert")) /\ UNCHANGED <<sregs, hist>>
       ELSE /\ sregs' = "complete"
            /\ hist' = [hist EXCEPT !.sregsRead[0] = "complete"]
            /\ \E failed \in BOOLEAN :
                 kvm_ioctl(0, "KVM_SET_SREGS", failed, "set_regs")
  /\ UNCHANGED <<initVars, openFds, smpVars>>
  /\ UNCHANGED <<vcpufd, sigPending, req, loopRet>>
  /\ UNCHANGED aloneVars

\* setup_system, id != 0: only KVM_SET_SREGS, from the static sregs
setup_system(t) ==
  /\ Running /\ pc[t] = "setup_system" /\ t # 0
  /\ hist' = [hist EXCEPT !.sregsRead[t] = sregs]
  /\ \E failed \in BOOLEAN :
       kvm_ioctl(t, "KVM_SET_SREGS", failed, "set_regs")
  /\ UNCHANGED <<initVars, openFds, smpVars, cpuVars>>
  /\ UNCHANGED aloneVars

\* KVM_SET_REGS, KVM_GET_VCPU_MMAP_SIZE, mmap of the run structure and
\* setup_cpuid; vcpu_init then returns 0: to uhyve_init's caller for the
\* boot vCPU, into vcpu_loop for a peer (uhyve_thread)
vcpu_init_regs(t) ==
  /\ Running /\ pc[t] = "set_regs"
  /\ \E failed \in BOOLEAN :
       kvm_ioctl(t, "KVM_SET_REGS", failed,
                 IF t = 0 THEN "main_init_done" ELSE "mp_state")
  /\ UNCHANGED <<initVars, openFds, hist, smpVars, cpuVars>>
  /\ UNCHANGED aloneVars

\* ------------------------------------------------------------------ main
\* main (in proxy.c): uhyve_init returned 0, so uhyve_loop is called
main_call_loop ==
  /\ Running /\ pc[0] = "main_init_done"
  /\ Goto(0, "uhyve_loop")
  /\ UNCHANGED <<initVars, openFds, hist, smpVars, cpuVars>>
  /\ UNCHANGED aloneVars

\* main returns what uhyve_loop returned: exit(ret)
main_return ==
  /\ Running /\ pc[0] = "main_ret"
  /\ exit(0, loopRet[0], Failed("main"))
  /\ UNCHANGED <<initVars, openFds, hist, smpVars, cpuVars>>
  /\ UNCHANGED aloneVars

\* ------------------------------------------------------------ uhyve_loop
\* ncores = atoi(HERMIT_CPUS) (1 when unset); *(mboot + 0x24) = ncores;
\* vcpu_threads = calloc(ncores, ...), err(1) when it fails;
\* vcpu_threads[0] = pthread_self();
uhyve_loop_cores ==
  /\ Running /\ pc[0] = "uhyve_loop"
  /\ \E n \in 1 .. MaxCores, failed \in BOOLEAN :
       /\ ncores' = n
       /\ coresField' = n
       /\ IF failed
            THEN /\ err(0, Failed("calloc"))
                 /\ UNCHANGED <<vcpu_threads, spawnI>>
            ELSE /\ vcpu_threads' = [i \in 0 .. (n - 1) |-> i = 0]
                 /\ spawnI' = 1
                 /\ Goto(0, "spawn")
  /\ UNCHANGED <<sigInstalls, atexitRegs, guest_size, kvm, vmfd, image,
                 mboot, gate, apicid, openFds, hist, netfd, cpuVars>>
  /\ UNCHANGED aloneVars

\* a loop that stops one peer short
SpawnMore_short(i, n) == i + 1 < n

\* loop condition of: for (i = 1; i < ncores; i++)
SpawnMore(i, n) == i < n

\* for (i = 1; i < ncores; i++) pthread_create(vcpu_threads + i, ...)
uhyve_loop_spawn ==
  /\ Running /\ pc[0] = "spawn"
  /\ IF SpawnMore(spawnI, ncores)
       THEN /\ pc' = [pc EXCEPT ![spawnI] = "gate"]
            /\ vcpu_threads' = [vcpu_threads EXCEPT ![spawnI] = TRUE]
            /\ spawnI' = spawnI + 1
            /\ UNCHANGED <<proc, xowner, xstatus, xval, xi, lastExit>>
       ELSE /\ Goto(0, "netif")
            /\ UNCHANGED <<vcpu_threads, spawnI>>
  /\ UNCHANGED <<initVars, openFds, hist, ncores, netfd, cpuVars>>
  /\ UNCHANGED aloneVars

\* if (getenv("HERMIT_NETIF")) netfd = setup_network(...); then vcpu_loop()
uhyve_loop_netif ==
  /\ Running /\ pc[0] = "netif"
  /\ \E netif \in BOOLEAN :
       /\ netfd' = IF netif THEN TapFd ELSE netfd
       /\ openFds' = IF netif THEN openFds \cup {TapFd} ELSE openFds
  /\ Goto(0, "mp_state")
  /\ UNCHANGED <<initVars, hist, ncores, vcpu_threads, spawnI, cpuVars>>
  /\ UNCHANGED aloneVars


\* ------------------------------------------------------------- vcpu_loop
\* KVM_GET_MP_STATE (and KVM_SET_MP_STATE), then the first KVM_RUN is issued
vcpu_loop_mp_state(t) ==
  /\ Running /\ pc[t] = "mp_state"
  /\ \E failed \in BOOLEAN :
       /\ kvm_ioctl(t, "KVM_GET_MP_STATE", failed, "run")
       /\ hist' = IF failed THEN hist
                  ELSE [hist EXCEPT !.entered = @ \cup {t}]
  /\ UNCHANGED <<initVars, openFds, smpVars, cpuVars>>
  /\ UNCHANGED aloneVars

\* what vcpu_loop does when ioctl(KVM_RUN) returns -1 with errno e: the
\* kvm_ioctl macro has already called err(1) before the switch on errno
\* (EINTR: continue, EFAULT: report rip) can be reached
RunFailure(e) == "err"

\* a switch whose KVM_EXIT_MMIO case breaks out to the next KVM_RUN
Dispatch_mmioIgnored(reason, port) ==
  CASE reason = "HLT" -> "return"
    [] reason = "MMIO" -> "continue"
    [] reason = "IO" -> IF port \in ServedPorts THEN "serve" ELSE "err"
    [] reason = "FAIL_ENTRY" -> "err"
    [] reason = "INTERNAL_ERROR" -> "err"
    [] reason = "SHUTDOWN" -> "err"
    [] OTHER -> "exit_failure"

\* the switch on run->exit_reason and run->io.port
Dispatch(reason, port) ==
  CASE reason = "HLT" -> "return"
    [] reason = "MMIO" -> "err"
    [] reason = "IO" -> IF port \in ServedPorts THEN "serve" ELSE "err"
    [] reason = "FAIL_ENTRY" -> "err"
    [] reason = "INTERNAL_ERROR" -> "err"
    [] reason = "SHUTDOWN" -> "err"
    [] OTHER -> "exit_failure"

\* a KVM_EXIT_HLT case that returns a failure
HaltReturn_one == EXIT_FAILURE

\* case KVM_EXIT_HLT: return 0;
HaltReturn == 0

\* one return of ioctl(KVM_RUN) on thread t and the switch on
\* run->exit_reason.  For KVM_EXIT_IO the payload at run + data_offset is
\* fixed here and an unserved port ends in the default case at once; which
\* of the served ports it is, is resolved when the handler runs.
vcpu_loop_run(t) ==
  /\ Running /\ pc[t] = "run"
  /\ \/ \E e \in RunErrnos :
          /\ CASE RunFailure(e) = "err" -> err(t, Failed(e))
               [] OTHER -> /\ pc' = pc
                           /\ lastExit' = Dispatched(t, Failed(e), NoArg)
                           /\ UNCHANGED <<proc, xowner, xstatus, xval, xi>>
          /\ UNCHANGED <<req, loopRet>>
     \/ \E reason \in ExitReasons \ {"IO"} :
          /\ CASE Dispatch(reason, NoPort) = "return" ->
                    /\ loopRet' = [loopRet EXCEPT ![t] = HaltReturn]
                    /\ pc' = [pc EXCEPT ![t] =
                                IF t = 0 THEN "main_ret" ELSE "returned"]
                    /\ lastExit' = Dispatched(t, Failed(reason), NoArg)
                    /\ UNCHANGED <<proc, xowner, xstatus, xval, xi>>
               [] Dispatch(reason, NoPort) = "err" ->
                    err(t, Failed(reason)) /\ UNCHANGED loopRet
               [] Dispatch(reason, NoPort) = "exit_failure" ->
                    exit(t, EXIT_FAILURE, Failed(reason)) /\ UNCHANGED loopRet
               [] OTHER ->
                    /\ pc' = pc
                    /\ lastExit' = Dispatched(t, Failed(reason), NoArg)
                    /\ UNCHANGED <<proc, xowner, xstatus, xval, xi, loopRet>>
          /\ UNCHANGED req
     \/ \E port \in ServedPorts \cup {UnknownPort},
           data \in GuestAddrs(guest_size) :
          CASE Dispatch("IO", port) = "serve" ->
                 /\ req' = [req EXCEPT ![t] = data]
                 /\ Goto(t, "io")
                 /\ UNCHANGED loopRet
            [] Dispatch("IO", port) = "err" ->
                 /\ err(t, Event("IO", port, 0))
                 /\ UNCHANGED <<req, loopRet>>
            [] OTHER ->
                 /\ pc' = pc
                 /\ lastExit' = Dispatched(t, Event("IO", port, 0), NoArg)
                 /\ UNCHANGED <<proc, xowner, xstatus, xval, xi, req, loopRet>>
  /\ UNCHANGED <<initVars, openFds, hist, smpVars, vcpufd, sregs,
                 sigPending>>
  /\ UNCHANGED aloneVars

\* close(fd) on the descriptor table
CloseFd(fds, fd) == fds \ {fd}

\* ---- hypercall records and the host calls made for them
\* An integer field of a record holds the two's-complement reading of its
\* bits: 0 - 1 is the field with every bit set, which a size_t reads as
\* SIZE_MAX.  Storing an int or ssize_t result into a wider or unsigned
\* field keeps that reading, and so does the conversion of an int to the
\* type of the field it is compared with.
MaxXfer == 2
RecLens == {0 - 1, 0, MaxXfer}

\* a <= b for the unsigned readings of a and b
ULe(a, b) == IF (a < 0) = (b < 0) THEN a <= b ELSE b < 0

\* the count a host call is asked for, as far as the host can serve it
XferCount(len) == IF len < 0 \/ len > MaxXfer THEN MaxXfer ELSE len

\* what write(fd, buf, len) can return: -1, or a count up to len
WriteResults(fdOpen, len) ==
  IF fdOpen THEN {0 - 1} \cup (0 .. XferCount(len)) ELSE {0 - 1}

\* what read(fd, buf, len) can return, with errno
ReadResults(fdOpen, len) ==
  IF fdOpen
  THEN {[ret |-> n, errno |-> "none"] : n \in 0 .. XferCount(len)}
       \cup {[ret |-> 0 - 1, errno |-> e] : e \in {"EAGAIN", "EIO"}}
  ELSE {[ret |-> 0 - 1, errno |-> "EBADF"]}

\* what close(fd) can return; an open descriptor is released either way
CloseResults(fdOpen) == IF fdOpen THEN {0, 0 - 1} ELSE {0 - 1}

\* uhyve_write->len = write(...)
uhyve_write_lost(rec, res) == rec
uhyve_write(rec, res) == [rec EXCEPT !.len = res]

\* if (uhyve_close->ret > 2)
CloseGate_fd(rec) == rec.fd > 2
CloseGate(rec) == rec.ret > 2

\* assert(uhyve_netwrite->len == ret)
NetwriteAssert(len, ret) == len = ret

\* (ret == 0) || (ret == -1 && errno == EAGAIN)
NetreadIdle_eof(r) == r.ret = 0
NetreadIdle(r) == r.ret = 0 \/ (r.ret = 0 - 1 /\ r.errno = "EAGAIN")

\* [a, a + n) lies inside the guest memory region [0, guest_size)
InRegion(a, n) == a >= 0 /\ a + n <= guest_size

\* an EXIT handler that passes the payload itself instead of the int it
\* points to
ExitStatusRead_payload(data, stored) == data

\* the int passed to exit() by the EXIT hypercall, where stored is the int
\* at guest_mem + data: exit(*(int*)(guest_mem + data))
ExitStatusRead(data, stored) == stored

\* the handler of a served port on thread t, entered from the switch on
\* run->io.port; on break the loop issues KVM_RUN again.  data is used
\* without any check: guest_mem + data may lie outside the mapping, where
\* the access either faults or touches other host memory.
hypercall(t) ==
  /\ Running /\ pc[t] = "io"
  /\ LET data == req[t]
         resume ==
           /\ Goto(t, "run")
           /\ req' = [req EXCEPT ![t] = NoData]
         failed(port) ==
           /\ abort(t, Event("IO", port, 0))
           /\ UNCHANGED req
     IN
     \/ /\ ~InRegion(data, 1)
        /\ segv(t, Event("IO", NoPort, 0))
        /\ UNCHANGED <<req, openFds>>
     \* WRITE, READ, OPEN, LSEEK: one host call, its result stored in the
     \* record; NETINFO: memcpy of the MAC string into the record
     \/ /\ \E port \in {UHYVE_PORT_WRITE, UHYVE_PORT_READ, UHYVE_PORT_OPEN,
                        UHYVE_PORT_LSEEK, UHYVE_PORT_NETINFO} : resume
        /\ UNCHANGED openFds
     \* CLOSE: if (uhyve_close->ret > 2) uhyve_close->ret = close(fd)
     \/ /\ \E fd \in {1, FileFd}, ret \in {0, 3} :
             openFds' = IF CloseGate([fd |-> fd, ret |-> ret])
                        THEN CloseFd(openFds, fd) ELSE openFds
        /\ resume
     \* EXIT: exit(*(int*)(guest_mem + data))
     \/ /\ \E stored \in ExitValues :
             exit(t, ExitStatusRead(data, stored),
                  Event("IO", UHYVE_PORT_EXIT, stored))
        /\ UNCHANGED <<req, openFds>>
     \* NETWRITE: ret = write(netfd, ...); assert(len == ret)
     \/ /\ \E len \in RecLens :
             \E ret \in WriteResults(netfd \in openFds, len) :
                IF NetwriteAssert(len, ret) THEN resume
                ELSE failed(UHYVE_PORT_NETWRITE)
        /\ UNCHANGED openFds
     \* NETREAD: ret = read(netfd, ...); 0 or EAGAIN gives ret = -1,
     \* otherwise assert(ret > 0)
     \/ /\ \E len \in RecLens :
             \E r \in ReadResults(netfd \in openFds, len) :
                IF NetreadIdle(r) \/ r.ret > 0 THEN resume
                ELSE failed(UHYVE_PORT_NETREAD)
        /\ UNCHANGED openFds
  /\ UNCHANGED <<initVars, hist, smpVars, vcpufd, sregs, sigPending,
                 loopRet>>
  /\ UNCHANGED aloneVars

\* ------------------------------------------------- sig_func, uhyve_exit
\* SIGTERM handler, run by the thread the signal was sent to:
\* if (vcpufd != -1) close(vcpufd); vcpufd = -1; pthread_exit(0);
sig_func(t) ==
  /\ Running /\ sigPending[t] /\ Alive(t)
  /\ openFds' = IF vcpufd[t] # 0 - 1 THEN CloseFd(openFds, vcpufd[t])
                ELSE openFds
  /\ vcpufd' = [vcpufd EXCEPT ![t] = 0 - 1]
  /\ sigPending' = [sigPending EXCEPT ![t] = FALSE]
  /\ pc' = [pc EXCEPT ![t] = "exited"]
  /\ lastExit' = Forget(t)
  /\ UNCHANGED <<proc, xowner, xstatus, xval, xi>>
  /\ UNCHANGED <<initVars, smpVars, hist, sregs, req, loopRet>>
  /\ UNCHANGED aloneVars

\* uhyve_exit, one turn of: for (i = 0; i < ncores; i++)
\*   if (vcpu_threads[i] != pthread_self()) { pthread_kill(vcpu_threads[i],
\*   SIGTERM); pthread_join(vcpu_threads[i], NULL); }
\* A slot pthread_create has not filled yet still holds calloc's 0, which is
\* no thread handle: pthread_kill on it faults or fails.
uhyve_exit_kill(t) ==
  /\ Running /\ xowner = t /\ pc[t] = "x_loop"
  /\ IF DOMAIN vcpu_threads = {} \/ xi >= ncores
       THEN /\ pc' = [pc EXCEPT ![t] = "x_close_vcpu"]
            /\ UNCHANGED <<proc, xi, sigPending, hist>>
       ELSE IF xi = t
         THEN /\ xi' = xi + 1
              /\ UNCHANGED <<pc, proc, sigPending, hist>>
         ELSE IF vcpu_threads[xi]
           THEN /\ sigPending' = [sigPending EXCEPT ![xi] = Alive(xi)]
                /\ hist' = [hist EXCEPT !.sigSent = @ \cup {xi}]
                /\ pc' = [pc EXCEPT ![t] = "x_join"]
                /\ UNCHANGED <<proc, xi>>
           ELSE \/ /\ proc' = [st |-> "signaled", code |-> SIGSEGV_STATUS,
                                 by |-> t]
                   /\ UNCHANGED <<pc, xi, sigPending, hist>>
                \/ /\ xi' = xi + 1
                   /\ UNCHANGED <<pc, proc, sigPending, hist>>
  /\ UNCHANGED <<xowner, xstatus, xval>>
  /\ lastExit' = Forget(t)
  /\ UNCHANGED <<initVars, openFds, smpVars, vcpufd, sregs, req, loopRet>>
  /\ UNCHANGED aloneVars

\* a join that returns without waiting for the thread
uhyve_exit_join_nowait(t) ==
  /\ Running /\ xowner = t /\ pc[t] = "x_join"
  /\ hist' = [hist EXCEPT !.joined = @ \cup {xi}]
  /\ xi' = xi + 1
  /\ pc' = [pc EXCEPT ![t] = "x_loop"]
  /\ UNCHANGED <<proc, xowner, xstatus, xval, lastExit>>
  /\ UNCHANGED <<initVars, openFds, smpVars, cpuVars>>
  /\ UNCHANGED aloneVars

\* pthread_join(vcpu_threads[i], NULL) returns once thread i has ended
uhyve_exit_join(t) ==
  /\ Running /\ xowner = t /\ pc[t] = "x_join"
  /\ Terminated(xi)
  /\ hist' = [hist EXCEPT !.joined = @ \cup {xi}]
  /\ xi' = xi + 1
  /\ pc' = [pc EXCEPT ![t] = "x_loop"]
  /\ UNCHANGED <<proc, xowner, xstatus, xval, lastExit>>
  /\ UNCHANGED <<initVars, openFds, smpVars, cpuVars>>
  /\ UNCHANGED aloneVars

\* the statement that follows a close of uhyve_exit, with the KVM
\* descriptor closed before the VM descriptor
NextClose_kvm_first(p) ==
  CASE p = "x_close_vcpu" -> "x_close_kvm"
    [] p = "x_close_kvm" -> "x_close_vm"
    [] OTHER -> "x_done"

\* the statement that follows a close of uhyve_exit
NextClose(p) ==
  CASE p = "x_close_vcpu" -> "x_close_vm"
    [] p = "x_close_vm" -> "x_close_kvm"
    [] OTHER -> "x_done"

\* the three closes at the end of uhyve_exit, in the order of the code:
\* vcpufd (of the calling thread), vmfd, kvm; each only if it is not -1.
\* After the last one the exit handler returns and the process ends with
\* the status given to exit().
uhyve_exit_close(t) ==
  /\ Running /\ xowner = t
  /\ pc[t] \in {"x_close_vcpu", "x_close_vm", "x_close_kvm"}
  /\ CASE pc[t] = "x_close_vcpu" ->
            /\ openFds' = IF vcpufd[t] # 0 - 1
                          THEN CloseFd(openFds, vcpufd[t]) ELSE openFds
            /\ hist' = IF vcpufd[t] # 0 - 1
                       THEN [hist EXCEPT !.closed = Append(@, vcpufd[t])]
                       ELSE hist
            /\ vcpufd' = [vcpufd EXCEPT ![t] = 0 - 1]
            /\ UNCHANGED <<vmfd, kvm>>
       [] pc[t] = "x_close_vm" ->
            /\ openFds' = IF vmfd # 0 - 1 THEN CloseFd(openFds, vmfd)
                          ELSE openFds
            /\ hist' = IF vmfd # 0 - 1
                       THEN [hist EXCEPT !.closed = Append(@, vmfd)]
                       ELSE hist
            /\ vmfd' = 0 - 1
            /\ UNCHANGED <<vcpufd, kvm>>
       [] pc[t] = "x_close_kvm" ->
            /\ openFds' = IF kvm # 0 - 1 THEN CloseFd(openFds, kvm)
                          ELSE openFds
            /\ hist' = IF kvm # 0 - 1
                       THEN [hist EXCEPT !.closed = Append(@, kvm)]
                       ELSE hist
            /\ kvm' = 0 - 1
            /\ UNCHANGED <<vcpufd, vmfd>>
  /\ pc' = [pc EXCEPT ![t] = NextClose(pc[t])]
  /\ proc' = IF NextClose(pc[t]) = "x_done"
             THEN [st |-> "exited", code |-> xstatus % 256, by |-> t]
             ELSE proc
  /\ UNCHANGED <<xowner, xstatus, xval, xi, lastExit>>
  /\ UNCHANGED <<sigInstalls, atexitRegs, guest_size, image, mboot, gate,
                 apicid, coresField, smpVars, sregs, sigPending, req,
                 loopRet>>
  /\ UNCHANGED aloneVars

\* ----------------------------------------------------------------- guest
\* the guest, while one of its vCPUs executes inside KVM_RUN, stores a value
\* into the gate counter at mboot + 0x20
guest_write_gate ==
  /\ Running /\ mboot = "set"
  /\ \E t \in Threads : pc[t] = "run"
  /\ \E g \in 0 .. (MaxCores - 1) : g # gate /\ gate' = g
  /\ hist' = [hist EXCEPT !.orderly =
                 @ /\ gate' = gate + 1 /\ gate \in hist.entered]
  /\ UNCHANGED <<pc, proc, xowner, xstatus, xval, xi, lastExit, sigInstalls,
                 atexitRegs,
                 guest_size, kvm, vmfd, image, mboot, apicid, coresField,
                 openFds, smpVars, cpuVars>>
  /\ UNCHANGED aloneVars

\* ------------------------------------------------------------------ Spec
MainInit ==
  /\ pc = [t \in Threads |-> IF t = 0 THEN "signal" ELSE "unborn"]
  /\ proc = [st |-> "running", code |-> 0, by |-> NoThread]
  /\ xowner = NoThread
  /\ xstatus = NoArg
  /\ xval = NoArg
  /\ xi = 0
  /\ sigInstalls = 0
  /\ atexitRegs = 0
  /\ guest_size = DefaultGuestSize
  /\ kvm = 0 - 1 /\ vmfd = 0 - 1 /\ netfd = 0 - 1
  /\ vcpufd = [t \in Threads |-> VcpuFdInitial]
  /\ openFds = StdFds
  /\ image = "none"
  /\ mboot = "NULL"
  /\ gate = 0 /\ apicid = 0 /\ coresField = 0
  /\ ncores = 1
  /\ vcpu_threads = << >>
  /\ spawnI = 0
  /\ sregs = "unset"
  /\ sigPending = [t \in Threads |-> FALSE]
  /\ req = [t \in Threads |-> NoData]
  /\ lastExit = NoDispatch
  /\ loopRet = [t \in Threads |-> NoRet]
  /\ hist = [bootWaited |-> FALSE,
             sregsRead |-> [t \in Threads |-> "none"],
             sigSent |-> {},
             joined |-> {},
             closed |-> << >>,
             entered |-> {},
             created |-> << >>,
             orderly |-> FALSE]

Init ==
  /\ MainInit /\ ld = LdIdle /\ hc = HcIdle /\ cfg = CfgIdle
  /\ lay = LayIdle /\ fr = FrIdle

Next ==
  \/ uhyve_init_signal
  \/ uhyve_init_atexit
  \/ uhyve_init_memparse
  \/ uhyve_init_open_kvm
  \/ uhyve_init_create_vm
  \/ uhyve_init_mmap
  \/ load_kernel
  \/ uhyve_init_region
  \/ setup_system_gdt
  \/ setup_system_page_tables
  \/ main_call_loop
  \/ main_return
  \/ uhyve_loop_cores
  \/ uhyve_loop_spawn
  \/ uhyve_loop_netif
  \/ guest_write_gate
  \/ \E t \in Threads :
       \/ vcpu_init_gate(t)
       \/ vcpu_init_write_id(t)
       \/ vcpu_init_create(t)
       \/ setup_system(t)
       \/ vcpu_init_regs(t)
       \/ vcpu_loop_mp_state(t)
       \/ vcpu_loop_run(t)
       \/ hypercall(t)
       \/ sig_func(t)
       \/ uhyve_exit_kill(t)
       \/ uhyve_exit_join(t)
       \/ uhyve_exit_close(t)

Spec == Init /\ [][Next]_vars

\* ------------------------------------------- load_kernel, the segment loop
\* The loop of load_kernel over the program headers of an image whose ELF
\* header passed the checks, on a guest memory of MemBytes bytes kept at
\* 4-byte granularity.  Sizes, offsets and addresses are in bytes and are
\* multiples of 4; a 64-bit store fills two words, low word first.
MaxPhdrs == 2
MemBytes == 512
NoAddr == 0 - 1                       \* a NULL anchor
KlogOffset == 20480                   \* 0x5000
CpuFreq == 2400                       \* what get_cpufreq() returns
PreadChunk == 64                      \* most bytes one pread() hands over
WordAddrs == {a \in 0 .. (MemBytes - 1) : a % 4 = 0}
Min(a, b) == IF a < b THEN a ELSE b

\* the word of the image file at byte offset off
FileWord(off) == 4096 + off

Phdrs ==
  {[p_type |-> "PT_NOTE", p_paddr |-> 0, p_offset |-> 0, p_filesz |-> 32,
    p_memsz |-> 32]}
  \cup {[p_type |-> "PT_LOAD", p_paddr |-> pa, p_offset |-> off,
         p_filesz |-> fsz, p_memsz |-> fsz + bss] :
          pa \in {0, 256}, off \in {64, 256}, fsz \in {32, 160},
          bss \in {0, 16}}
FileLens == {96, 288, 512}

\* program header tables whose PT_LOAD segments lie apart in guest memory
PhdrTables ==
  {tab \in UNION {[1 .. n -> Phdrs] : n \in 1 .. MaxPhdrs} :
     \A i, j \in DOMAIN tab :
        (i # j /\ tab[i].p_type = "PT_LOAD" /\ tab[j].p_type = "PT_LOAD")
           => tab[i].p_paddr # tab[j].p_paddr}

\* pread_in_full: pread() until count bytes are in, the file ends, or an
\* error; the result is [ret, mem].  A failing pread() gives -1, the end of
\* the file gives the bytes read so far.
RECURSIVE pread_in_full(_, _, _, _, _, _, _)
pread_in_full(m, flen, addr, count, offset, total, fails) ==
  IF count = 0 THEN [ret |-> total, mem |-> m]
  ELSE IF fails THEN [ret |-> 0 - 1, mem |-> m]
  ELSE LET left == IF flen > offset THEN flen - offset ELSE 0
           nr == Min(PreadChunk, Min(count, left))
       IN IF nr = 0 THEN [ret |-> total, mem |-> m]
          ELSE pread_in_full(
                 [a \in DOMAIN m |->
                    IF a >= addr /\ a < addr + nr
                    THEN FileWord(offset + (a - addr)) ELSE m[a]],
                 flen, addr + nr, count - nr, offset + nr, total + nr,
                 fails)

memset(m, addr, n) ==
  [a \in DOMAIN m |-> IF a >= addr /\ a < addr + n THEN 0 ELSE m[a]]
Store32(m, addr, v) == [m EXCEPT ![addr] = v]
Store64(m, addr, v) == [m EXCEPT ![addr] = v, ![addr + 4] = 0]
Load32(m, addr) == m[addr]
Load64(m, addr) == IF m[addr + 4] = 0 THEN m[addr] ELSE 0 - 1

\* if (!anchor) anchor = value;
SetAnchor_always(old, new) == new
SetAnchor(old, new) == IF old = NoAddr THEN new ELSE old

\* the stores of the first_load block
BootInfo(m, paddr, filesz) ==
  LET m1 == Store64(m, paddr + 8, paddr)
      m2 == Store64(m1, paddr + 16, guest_size)
      m3 == Store32(m2, paddr + 24, CpuFreq)
      m4 == Store32(m3, paddr + 36, 1)
      m5 == Store32(m4, paddr + 48, 0)
      m6 == Store64(m5, paddr + 56, filesz)
      m7 == Store32(m6, paddr + 96, 1)
  IN Store32(m7, paddr + 148, 1)

LdStart(tab, flen) ==
  [pc |-> "loop", phdr |-> tab, flen |-> flen, ph_i |-> 1,
   mem |-> [a \in WordAddrs |-> 0], first_load |-> TRUE,
   mboot |-> NoAddr, klog |-> NoAddr, complete |-> FALSE,
   ret |-> 0 - 1]

\* one pass of the loop body
ld_segment ==
  /\ ld.pc = "loop"
  /\ ld.ph_i <= Len(ld.phdr)
  /\ LET h == ld.phdr[ld.ph_i] IN
       IF h.p_type # "PT_LOAD"
       THEN ld' = [ld EXCEPT !.ph_i = @ + 1]
       ELSE \E fails \in BOOLEAN :
              LET r == pread_in_full(ld.mem, ld.flen, h.p_paddr, h.p_filesz,
                                     h.p_offset, 0, fails)
                  z == memset(r.mem, h.p_paddr + h.p_filesz,
                              h.p_memsz - h.p_filesz)
              IN IF r.ret < 0
                 THEN ld' = [ld EXCEPT !.pc = "out"]
                 ELSE ld' = [ld EXCEPT
                        !.mem = IF ld.first_load
                                THEN BootInfo(z, h.p_paddr, h.p_filesz)
                                ELSE z,
                        !.klog = SetAnchor(@, h.p_paddr + KlogOffset),
                        !.mboot = SetAnchor(@, h.p_paddr),
                        !.first_load = FALSE,
                        !.ph_i = @ + 1]
  /\ UNCHANGED <<mainVars, hc, cfg, lay, fr>>

\* the loop has gone through every program header
ld_loop_end ==
  /\ ld.pc = "loop"
  /\ ld.ph_i > Len(ld.phdr)
  /\ ld' = [ld EXCEPT !.pc = "out", !.complete = TRUE]
  /\ UNCHANGED <<mainVars, hc, cfg, lay, fr>>

\* out: free(phdr); close(fd); return 0;
ld_out ==
  /\ ld.pc = "out"
  /\ ld' = [ld EXCEPT !.pc = "returned", !.ret = 0]
  /\ UNCHANGED <<mainVars, hc, cfg, lay, fr>>

LoadInit ==
  /\ MainInit
  /\ hc = HcIdle
  /\ cfg = CfgIdle
  /\ lay = LayIdle
  /\ fr = FrIdle
  /\ \E tab \in PhdrTables, flen \in FileLens : ld = LdStart(tab, flen)

LoadNext == ld_segment \/ ld_loop_end \/ ld_out

LoadSpec == LoadInit /\ [][LoadNext]_vars

\* ----------------------------------------------- hypercall handlers alone
\* One handler of vcpu_loop's KVM_EXIT_IO switch on one record: hc.in is
\* the record the guest passed, hc.rec the record as the handler leaves it,
\* hc.calls the host calls made, hc.fds the host descriptors open, and
\* hc.pc tells whether the vCPU is resumed or the monitor aborted.
ClosedFd == 9                       \* a descriptor that is not open
HcFds(nfd) == {0, 1, 2, FileFd} \cup (IF nfd = 0 - 1 THEN {} ELSE {nfd})
HcRecords(port) ==
  IF port = UHYVE_PORT_WRITE
  THEN [fd : {1, FileFd, ClosedFd}, buf : {0}, len : RecLens]
  ELSE IF port = UHYVE_PORT_CLOSE
  THEN [fd : {0, 1, 2, FileFd, ClosedFd}, ret : {0 - 1, 0, 2, 3}]
  ELSE [data : {0}, len : RecLens, ret : {0 - 1, 7}]

HcStart(port, rec, nfd) ==
  [pc |-> "entry", port |-> port, in |-> rec, rec |-> rec, netfd |-> nfd,
   fds |-> HcFds(nfd), calls |-> << >>]

HcDone(pcNew, rec, fds, call) ==
  hc' = [hc EXCEPT !.pc = pcNew, !.rec = rec, !.fds = fds,
                   !.calls = Append(@, call)]

hc_write ==
  /\ hc.pc = "entry" /\ hc.port = UHYVE_PORT_WRITE
  /\ \E res \in WriteResults(hc.rec.fd \in hc.fds, hc.rec.len) :
       HcDone("resumed", uhyve_write(hc.rec, res), hc.fds,
              [call |-> "write", fd |-> hc.rec.fd, len |-> hc.rec.len,
               res |-> res])
  /\ UNCHANGED <<mainVars, ld, cfg, lay, fr>>

hc_close ==
  /\ hc.pc = "entry" /\ hc.port = UHYVE_PORT_CLOSE
  /\ IF CloseGate(hc.rec)
     THEN \E res \in CloseResults(hc.rec.fd \in hc.fds) :
            HcDone("resumed", [hc.rec EXCEPT !.ret = res],
                   CloseFd(hc.fds, hc.rec.fd),
                   [call |-> "close", fd |-> hc.rec.fd, len |-> 0,
                    res |-> res])
     ELSE hc' = [hc EXCEPT !.pc = "resumed"]
  /\ UNCHANGED <<mainVars, ld, cfg, lay, fr>>

hc_netwrite ==
  /\ hc.pc = "entry" /\ hc.port = UHYVE_PORT_NETWRITE
  /\ \E ret \in WriteResults(hc.netfd \in hc.fds, hc.rec.len) :
       LET call == [call |-> "write", fd |-> hc.netfd, len |-> hc.rec.len,
                    res |-> ret]
       IN IF NetwriteAssert(hc.rec.len, ret)
          THEN HcDone("resumed", [hc.rec EXCEPT !.ret = 0], hc.fds, call)
          ELSE HcDone("aborted", hc.rec, hc.fds, call)
  /\ UNCHANGED <<mainVars, ld, cfg, lay, fr>>

hc_netread ==
  /\ hc.pc = "entry" /\ hc.port = UHYVE_PORT_NETREAD
  /\ \E r \in ReadResults(hc.netfd \in hc.fds, hc.rec.len) :
       LET call == [call |-> "read", fd |-> hc.netfd, len |-> hc.rec.len,
                    res |-> r.ret, errno |-> r.errno]
       IN IF NetreadIdle(r)
          THEN HcDone("resumed", [hc.rec EXCEPT !.ret = 0 - 1], hc.fds,
                      call)
          ELSE IF r.ret > 0
          THEN HcDone("resumed", [hc.rec EXCEPT !.len = r.ret, !.ret = 0],
                      hc.fds, call)
          ELSE HcDone("aborted", hc.rec, hc.fds, call)
  /\ UNCHANGED <<mainVars, ld, cfg, lay, fr>>

HcInit ==
  /\ MainInit
  /\ ld = LdIdle
  /\ cfg = CfgIdle
  /\ lay = LayIdle
  /\ fr = FrIdle
  /\ \E port \in {UHYVE_PORT_WRITE, UHYVE_PORT_CLOSE, UHYVE_PORT_NETWRITE,
                  UHYVE_PORT_NETREAD} :
       \E rec \in HcRecords(port), nfd \in {0 - 1, TapFd} :
          hc = HcStart(port, rec, nfd)

HcNext == hc_write \/ hc_close \/ hc_netwrite \/ hc_netread

HcSpec == HcInit /\ [][HcNext]_vars

\* ------------------------------------------------- HERMIT_MEM on its own
\* The path of guest_size from the environment to the guest: memparse of
\* HERMIT_MEM, the assert of uhyve_init and the two asserts of
\* setup_system_page_tables, with guest_size in bytes and 64 bits wide.  A
\* 64-bit value is the set of the positions of its 1 bits.
WordBits == 64
Bits(n) == {i \in 0 .. 30 : (n \div (2 ^ i)) % 2 = 1}
\* v << k, v & w and a < b on 64-bit values
Shl(v, k) == {i + k : i \in v} \cap (0 .. (WordBits - 1))
And(v, w) == v \cap w
Less(a, b) == \E i \in b \ a : \A j \in a \ b : j < i
\* a size the monitor's constants give in KiB, in bytes
Bytes(kib) == Shl(Bits(kib), 10)

\* HERMIT_MEM: the number strtoull reads at its start and the character
\* that follows it ("" at the end of the string, X for any character that
\* is not a size letter); MemUnset stands for the variable not being set
MemNums == {0, 1, 2, 3, 17, 512, 767, 768, 1024, 3328, 2097152, 536870912}
MemSuffixes == {"", "K", "k", "M", "m", "G", "g", "T", "t", "P", "p", "E",
                "e", "X"}
MemUnset == [num |-> 0, suffix |-> "unset"]
MemStrings == {MemUnset} \cup [num : MemNums, suffix : MemSuffixes]

\* a switch whose lower-case labels are missing
CaseLabel_upper(c) ==
  CASE c = "E" -> 1 [] c = "P" -> 2 [] c = "T" -> 3 [] c = "G" -> 4
    [] c = "M" -> 5 [] c = "K" -> 6 [] OTHER -> 7

\* the case label of memparse's switch that *endptr selects, counted from
\* the top: E, P, T, G, M, K, default
CaseLabel(c) ==
  CASE c \in {"E", "e"} -> 1 [] c \in {"P", "p"} -> 2
    [] c \in {"T", "t"} -> 3 [] c \in {"G", "g"} -> 4
    [] c \in {"M", "m"} -> 5 [] c \in {"K", "k"} -> 6 [] OTHER -> 7

\* the statements of the switch from label k on: every case down to K has
\* ret <<= 10 and falls through to the next, default only breaks
RECURSIVE MemparseSwitch(_, _)
MemparseSwitch(ret, k) ==
  IF k > 6 THEN ret ELSE MemparseSwitch(Shl(ret, 10), k + 1)

memparse(str) == MemparseSwitch(Bits(str.num), CaseLabel(str.suffix))

\* an assert that lets the limit itself through
GapAssert_le(size) ==
  Less(size, Bytes(KVM_32BIT_GAP_SIZE)) \/ size = Bytes(KVM_32BIT_GAP_SIZE)

\* assert(guest_size < KVM_32BIT_GAP_SIZE)
GapAssert(size) == Less(size, Bytes(KVM_32BIT_GAP_SIZE))

\* assert((guest_size & (GUEST_PAGE_SIZE - 1)) == 0);
\* assert(guest_size <= (GUEST_PAGE_SIZE * 512));
PageAsserts(size) ==
  /\ And(size, Bits(GUEST_PAGE_SIZE * 1024 - 1)) = {}
  /\ \/ Less(size, Bytes(GUEST_PAGE_SIZE * MaxPdeEntries))
     \/ size = Bytes(GUEST_PAGE_SIZE * MaxPdeEntries)

CfgStart(str) ==
  [pc |-> "getenv", str |-> str, guest_size |-> Bytes(DefaultGuestSize),
   by |-> "none"]

\* str = getenv("HERMIT_MEM"); if (str) guest_size = memparse(str);
cfg_memparse ==
  /\ cfg.pc = "getenv"
  /\ cfg' = [cfg EXCEPT !.pc = "parsed",
                        !.guest_size = IF cfg.str = MemUnset THEN @
                                       ELSE memparse(cfg.str)]
  /\ UNCHANGED <<mainVars, ld, hc, lay, fr>>

\* the assert of uhyve_init
cfg_gap_assert ==
  /\ cfg.pc = "parsed"
  /\ cfg' = IF GapAssert(cfg.guest_size)
            THEN [cfg EXCEPT !.pc = "sized"]
            ELSE [cfg EXCEPT !.pc = "aborted", !.by = "gap"]
  /\ UNCHANGED <<mainVars, ld, hc, lay, fr>>

\* the asserts of setup_system_page_tables; past them nothing looks at the
\* value of guest_size any more before the guest runs
cfg_page_asserts ==
  /\ cfg.pc = "sized"
  /\ cfg' = IF PageAsserts(cfg.guest_size)
            THEN [cfg EXCEPT !.pc = "accepted"]
            ELSE [cfg EXCEPT !.pc = "aborted", !.by = "pages"]
  /\ UNCHANGED <<mainVars, ld, hc, lay, fr>>

CfgInit ==
  /\ MainInit
  /\ ld = LdIdle
  /\ hc = HcIdle
  /\ lay = LayIdle
  /\ fr = FrIdle
  /\ \E str \in MemStrings : cfg = CfgStart(str)

CfgNext == cfg_memparse \/ cfg_gap_assert \/ cfg_page_asserts

CfgSpec == CfgInit /\ [][CfgNext]_vars

\* ------------------------------------- the stores into guest memory alone
\* What uhyve_init writes through guest_mem, from mmap to the end of
\* setup_system on the boot vCPU, for an image with one PT_LOAD segment
\* whose file holds all of p_filesz: every store as the extent [lo, hi) of
\* guest addresses it covers, in bytes.  The mapping covers
\* [0, guest_size); a store that reaches beyond it is undefined: the host
\* either has nothing mapped there (SIGSEGV, or EFAULT from pread) or has
\* another mapping there, which takes the store.
KiB == 1024
BOOT_PDPTE == 68                   \* 0x11000 bytes, in KiB
BOOT_PDE == 72                     \* 0x12000 bytes, in KiB
BOOT_GDT_MAX == 3
PageBytes == 4096
EntryBytes == 8                    \* sizeof(uint64_t)

\* guest sizes the assert of uhyve_init lets through, in KiB
LaySizes == {k \in {0, 4, GUEST_PAGE_SIZE, DefaultGuestSize,
                    KVM_32BIT_GAP_SIZE} : k < KVM_32BIT_GAP_SIZE}

\* PT_LOAD headers, in bytes: at 0, at 8 MiB, and at and near the end of
\* the default guest memory
LayPaddrs == {0, 8388608, DefaultGuestSize * KiB - 64,
              DefaultGuestSize * KiB}
LaySegments ==
  [p_paddr : LayPaddrs, p_filesz : {32, 8192}, p_bss : {0, 4096}]

Ext(lo, len, by) == [lo |-> lo, hi |-> lo + len, by |-> by]

\* the stores of the first_load block
BootInfoExtents(paddr) ==
  {Ext(paddr + 8, 8, "boot_info"), Ext(paddr + 16, 8, "boot_info"),
   Ext(paddr + 24, 4, "boot_info"), Ext(paddr + 36, 4, "boot_info"),
   Ext(paddr + 48, 4, "boot_info"), Ext(paddr + 56, 8, "boot_info"),
   Ext(paddr + 96, 4, "boot_info"), Ext(paddr + 148, 4, "boot_info")}

\* gdt[BOOT_GDT_NULL], gdt[BOOT_GDT_CODE], gdt[BOOT_GDT_DATA]
GdtExtents ==
  {Ext(BOOT_GDT * KiB + EntryBytes * i, EntryBytes, "gdt") :
     i \in 0 .. (BOOT_GDT_MAX - 1)}

\* the three memsets, *pml4, *pdpte and one *pde per 2 MiB of guest_size
PageTableExtents(size) ==
  {Ext(b * KiB, PageBytes, "page_tables") :
     b \in {BOOT_PML4, BOOT_PDPTE, BOOT_PDE}}
  \cup {Ext(BOOT_PML4 * KiB, EntryBytes, "page_tables"),
        Ext(BOOT_PDPTE * KiB, EntryBytes, "page_tables")}
  \cup {Ext(BOOT_PDE * KiB + EntryBytes * i, EntryBytes, "page_tables") :
          i \in 0 .. ((size \div GUEST_PAGE_SIZE) - 1)}

LayStart(kib, seg) ==
  [pc |-> "mmap", kib |-> kib, guest_size |-> kib * KiB, seg |-> seg,
   writes |-> {}]

\* the stores es, made at lay.pc; l is the next statement, f where the
\* thread is when the host refuses the store
LayStores(es, l, f) ==
  LET real == {e \in es : e.lo < e.hi} IN
  \/ lay' = [lay EXCEPT !.pc = l, !.writes = @ \cup real]
  \/ /\ \E e \in real : e.hi > lay.guest_size
     /\ lay' = [lay EXCEPT !.pc = f]

\* guest_mem = mmap(NULL, guest_size, ...); a length of 0 is EINVAL
lay_mmap ==
  /\ lay.pc = "mmap"
  /\ lay' = [lay EXCEPT !.pc = IF lay.guest_size = 0 THEN "exit"
                               ELSE "pread"]
  /\ UNCHANGED <<mainVars, ld, hc, cfg, fr>>

\* ret = pread_in_full(fd, mem + paddr - GUEST_OFFSET, filesz, offset);
\* if (ret < 0) goto out;
lay_pread ==
  /\ lay.pc = "pread"
  /\ LayStores({Ext(lay.seg.p_paddr, lay.seg.p_filesz, "segment")},
               "memset", "out")
  /\ UNCHANGED <<mainVars, ld, hc, cfg, fr>>

\* memset(mem + paddr + filesz - GUEST_OFFSET, 0x00, memsz - filesz);
lay_memset ==
  /\ lay.pc = "memset"
  /\ LayStores({Ext(lay.seg.p_paddr + lay.seg.p_filesz, lay.seg.p_bss,
                    "zero_fill")}, "boot_info", "fault")
  /\ UNCHANGED <<mainVars, ld, hc, cfg, fr>>

\* if (first_load) { ... }
lay_boot_info ==
  /\ lay.pc = "boot_info"
  /\ LayStores(BootInfoExtents(lay.seg.p_paddr), "write_id", "fault")
  /\ UNCHANGED <<mainVars, ld, hc, cfg, fr>>

\* vcpu_init(0): *((volatile uint32_t*) (mboot + 0x30)) = id;
lay_write_id ==
  /\ lay.pc = "write_id"
  /\ LayStores({Ext(lay.seg.p_paddr + 48, 4, "boot_info")}, "gdt", "fault")
  /\ UNCHANGED <<mainVars, ld, hc, cfg, fr>>

\* setup_system_gdt(&sregs, mem, BOOT_GDT);
lay_gdt ==
  /\ lay.pc = "gdt"
  /\ LayStores(GdtExtents, "page_tables", "fault")
  /\ UNCHANGED <<mainVars, ld, hc, cfg, fr>>

\* setup_system_page_tables(&sregs, mem);
lay_page_tables ==
  /\ lay.pc = "page_tables"
  /\ IF PageTableChecks(lay.kib)
       THEN LayStores(PageTableExtents(lay.kib), "done", "fault")
       ELSE lay' = [lay EXCEPT !.pc = "aborted"]
  /\ UNCHANGED <<mainVars, ld, hc, cfg, fr>>

LayInit ==
  /\ MainInit
  /\ ld = LdIdle
  /\ hc = HcIdle
  /\ cfg = CfgIdle
  /\ fr = FrIdle
  /\ \E kib \in LaySizes, seg \in LaySegments : lay = LayStart(kib, seg)

LayNext ==
  \/ lay_mmap \/ lay_pread \/ lay_memset \/ lay_boot_info \/ lay_write_id
  \/ lay_gdt \/ lay_page_tables

LaySpec == LayInit /\ [][LayNext]_vars

\* ------------------------------- hypercall handlers on guest memory alone
\* One handler of vcpu_loop's KVM_EXIT_IO switch with its record where the
\* guest put it: guest memory is FrCells cells, the record starts at cell
\* fr.data with one cell per field in the order of its type, the gate
\* counter of mboot + 0x20 is cell GateCell, and a buffer of len bytes is
\* the len cells from the cell the record names.  fr.old is guest memory
\* when the handler is entered, fr.regs the vCPU's registers as KVM_RUN
\* left them.  The types of the NETWRITE and NETREAD records come from
\* uhyve-net.c; their fields are taken in the order data, len, ret.
FrCells == 10
RecAddr == 4
GateCell == 9
FileData == 99                      \* a byte the host read() hands over
FramePorts == {UHYVE_PORT_WRITE, UHYVE_PORT_OPEN, UHYVE_PORT_READ,
               UHYVE_PORT_LSEEK, UHYVE_PORT_NETWRITE, UHYVE_PORT_NETREAD}

RecordFields(port) ==
  CASE port = UHYVE_PORT_WRITE -> <<"fd", "buf", "len">>
    [] port = UHYVE_PORT_OPEN -> <<"name", "flags", "mode", "ret">>
    [] port = UHYVE_PORT_READ -> <<"fd", "buf", "len", "ret">>
    [] port = UHYVE_PORT_LSEEK -> <<"fd", "offset", "whence">>
    [] OTHER -> <<"data", "len", "ret">>

\* records the guest may pass
FrRecords(port) ==
  CASE port = UHYVE_PORT_WRITE ->
         [fd : {1, ClosedFd}, buf : {0}, len : RecLens]
    [] port = UHYVE_PORT_OPEN ->
         [name : {0}, flags : {0}, mode : {420}, ret : {7}]
    [] port = UHYVE_PORT_READ ->
         [fd : {FileFd, ClosedFd}, buf : {0, RecAddr, GateCell - 1},
          len : RecLens, ret : {7}]
    [] port = UHYVE_PORT_LSEEK ->
         [fd : {FileFd, ClosedFd}, offset : {0, 5}, whence : {0}]
    [] port = UHYVE_PORT_NETWRITE ->
         [data : {0}, len : RecLens, ret : {7}]
    [] OTHER ->
         [data : {0, RecAddr, GateCell - 1}, len : RecLens, ret : {7}]

\* the cell of field f of the record at data
FieldAddr(port, data, f) ==
  data - 1
    + CHOOSE i \in DOMAIN RecordFields(port) : RecordFields(port)[i] = f

\* the value of field f as the handler reads it
FrField(f) == fr.mem[FieldAddr(fr.port, fr.data, f)]

\* a store that is one cell too wide
FrStore_wide(m, f, v) ==
  [a \in DOMAIN m |->
     IF a \in {FieldAddr(fr.port, fr.data, f),
               FieldAddr(fr.port, fr.data, f) + 1}
     THEN v ELSE m[a]]

\* record->f = v
FrStore(m, f, v) == [m EXCEPT ![FieldAddr(fr.port, fr.data, f)] = v]

\* the host's read(fd, guest_mem + buf, len) has handed over n bytes
HostRead(m, buf, n) ==
  [a \in DOMAIN m |-> IF n > 0 /\ a >= buf /\ a < buf + n THEN FileData
                      ELSE m[a]]

\* what open() and lseek() can return
OpenResults == {0 - 1, FileFd}
LseekResults(fdOpen, off) == IF fdOpen THEN {0 - 1, off} ELSE {0 - 1}

FrStart(port, rec) ==
  LET m0 == [a \in 0 .. (FrCells - 1) |->
               IF a = GateCell THEN 1 ELSE 50 + a]
      m1 == [a \in 0 .. (FrCells - 1) |->
               IF \E f \in DOMAIN rec : FieldAddr(port, RecAddr, f) = a
               THEN rec[CHOOSE f \in DOMAIN rec :
                          FieldAddr(port, RecAddr, f) = a]
               ELSE m0[a]]
  IN [pc |-> "entry", port |-> port, data |-> RecAddr, old |-> m1,
      mem |-> m1, regs |-> "as KVM_RUN left them", res |-> 0]

FrDone(pcNew, m, res) ==
  fr' = [fr EXCEPT !.pc = pcNew, !.mem = m, !.res = res]

\* uhyve_write->len = write(uhyve_write->fd, guest_mem + buf, len);
fr_write ==
  /\ fr.pc = "entry" /\ fr.port = UHYVE_PORT_WRITE
  /\ \E res \in WriteResults(FrField("fd") \in HcFds(TapFd),
                             FrField("len")) :
       FrDone("resumed", FrStore(fr.mem, "len", res), res)
  /\ UNCHANGED <<mainVars, ld, hc, cfg, lay>>

\* uhyve_open->ret = open(guest_mem + name, flags, mode);
fr_open ==
  /\ fr.pc = "entry" /\ fr.port = UHYVE_PORT_OPEN
  /\ \E res \in OpenResults :
       FrDone("resumed", FrStore(fr.mem, "ret", res), res)
  /\ UNCHANGED <<mainVars, ld, hc, cfg, lay>>

\* uhyve_read->ret = read(uhyve_read->fd, guest_mem + buf, len);
fr_read ==
  /\ fr.pc = "entry" /\ fr.port = UHYVE_PORT_READ
  /\ \E r \in ReadResults(FrField("fd") \in HcFds(TapFd), FrField("len")) :
       FrDone("resumed",
              FrStore(HostRead(fr.mem, FrField("buf"), r.ret), "ret", r.ret),
              r.ret)
  /\ UNCHANGED <<mainVars, ld, hc, cfg, lay>>

\* uhyve_lseek->offset = lseek(uhyve_lseek->fd, offset, whence);
fr_lseek ==
  /\ fr.pc = "entry" /\ fr.port = UHYVE_PORT_LSEEK
  /\ \E res \in LseekResults(FrField("fd") \in HcFds(TapFd),
                             FrField("offset")) :
       FrDone("resumed", FrStore(fr.mem, "offset", res), res)
  /\ UNCHANGED <<mainVars, ld, hc, cfg, lay>>

\* ret = write(netfd, guest_mem + data, len); assert(len == ret);
\* uhyve_netwrite->ret = 0;
fr_netwrite ==
  /\ fr.pc = "entry" /\ fr.port = UHYVE_PORT_NETWRITE
  /\ \E ret \in WriteResults(TRUE, FrField("len")) :
       IF NetwriteAssert(FrField("len"), ret)
       THEN FrDone("resumed", FrStore(fr.mem, "ret", 0), ret)
       ELSE FrDone("aborted", fr.mem, ret)
  /\ UNCHANGED <<mainVars, ld, hc, cfg, lay>>

\* ret = read(netfd, guest_mem + data, len); then ret = -1, or the assert,
\* or len = ret and ret = 0
fr_netread ==
  /\ fr.pc = "entry" /\ fr.port = UHYVE_PORT_NETREAD
  /\ \E r \in ReadResults(TRUE, FrField("len")) :
       LET m == HostRead(fr.mem, FrField("data"), r.ret)
       IN IF NetreadIdle(r)
          THEN FrDone("resumed", FrStore(m, "ret", 0 - 1), r.ret)
          ELSE IF r.ret > 0
          THEN FrDone("resumed",
                      [FrStore(m, "len", r.ret) EXCEPT
                         ![FieldAddr(fr.port, fr.data, "ret")] = 0], r.ret)
          ELSE FrDone("aborted", m, r.ret)
  /\ UNCHANGED <<mainVars, ld, hc, cfg, lay>>

FrInit ==
  /\ MainInit
  /\ ld = LdIdle
  /\ hc = HcIdle
  /\ cfg = CfgIdle
  /\ lay = LayIdle
  /\ \E port \in FramePorts : \E rec \in FrRecords(port) :
       fr = FrStart(port, rec)

FrNext ==
  fr_write \/ fr_open \/ fr_read \/ fr_lseek \/ fr_netwrite \/ fr_netread

FrSpec == FrInit /\ [][FrNext]_vars

\* -------------------------------------------------------------- fairness
\* The host schedules every runnable thread, host calls and ioctls other
\* than KVM_RUN return, and a signal sent to a thread is delivered.  Nothing
\* is assumed of the guest: KVM_RUN may never return and the gate counter
\* may never be written.
MainStep ==
  \/ uhyve_init_signal \/ uhyve_init_atexit \/ uhyve_init_memparse
  \/ uhyve_init_open_kvm \/ uhyve_init_create_vm \/ uhyve_init_mmap
  \/ load_kernel \/ uhyve_init_region \/ setup_system_gdt
  \/ setup_system_page_tables \/ main_call_loop \/ main_return
  \/ uhyve_loop_cores \/ uhyve_loop_spawn \/ uhyve_loop_netif

ThreadStep(t) ==
  \/ vcpu_init_gate(t) \/ vcpu_init_write_id(t) \/ vcpu_init_create(t)
  \/ setup_system(t) \/ vcpu_init_regs(t) \/ vcpu_loop_mp_state(t)
  \/ hypercall(t)
  \/ uhyve_exit_kill(t) \/ uhyve_exit_join(t) \/ uhyve_exit_close(t)

FairSpec ==
  /\ Spec
  /\ WF_vars(MainStep)
  /\ \A t \in Threads : WF_vars(ThreadStep(t)) /\ WF_vars(sig_func(t))

\* ------------------------------------------------------------ properties
\* the monitor has begun to terminate: a thread is inside exit(), or the
\* process has ended
Terminating == xowner # NoThread \/ ~Running

\* positions of a thread inside exit()
ExitPcs == {"x_loop", "x_join", "x_close_vcpu", "x_close_vm", "x_close_kvm",
            "x_done", "x_blocked"}

\* C1: SMP gate safety.  A peer thread i >= 1 leaves the gate only in a step
\* that reads a value >= i from the counter at mboot + 0x20; it writes i to
\* mboot + 0x30 only after leaving the gate and issues KVM_CREATE_VCPU(i)
\* only after that write.  The boot vCPU (id 0) never finds the gate closed.
C1_GateSafety ==
  /\ [][\A i \in Peers :
          /\ (pc[i] # "write_id" /\ pc'[i] = "write_id")
                => (pc[i] = "gate" /\ gate >= i)
          /\ (apicid # i /\ apicid' = i)
                => (pc[i] = "write_id" /\ pc'[i] = "create_vcpu")
          /\ (vcpufd[i] # VcpuFdOf(i) /\ vcpufd'[i] = VcpuFdOf(i))
                => pc[i] = "create_vcpu"]_vars
  /\ [](~hist.bootWaited)

\* a peer has passed the gate, written its id and created its vCPU
C1_Witness ==
  \E i \in Peers : vcpufd[i] = VcpuFdOf(i) /\ pc[i] = "setup_system"

\* C2, as stated: whenever the guest eventually keeps the gate counter at
\* i or above, peer thread i, once at the gate, eventually enters KVM_RUN.
C2_Original ==
  \A i \in Peers :
    (<>[](gate >= i)) => [](pc[i] = "gate" => <>(pc[i] = "run"))

\* C2, amended: under fair scheduling, whenever the guest eventually keeps
\* the gate counter at i or above, peer thread i, once at the gate,
\* eventually enters KVM_RUN unless the monitor begins to terminate first
\* (a thread calls exit(), or the process is ended by a signal); and between
\* the gate and KVM_RUN a peer waits for nothing but the gate counter: in
\* every other position it has a step to take.
C2_GateLiveness ==
  /\ \A i \in Peers :
       (<>[](gate >= i)) =>
          [](pc[i] = "gate" => <>(pc[i] = "run" \/ Terminating))
  /\ [](\A i \in Peers :
          (/\ Running
           /\ pc[i] \in {"gate", "write_id", "create_vcpu", "setup_system",
                         "set_regs", "mp_state"}
           /\ (pc[i] = "gate" => gate >= i))
          => ENABLED <<ThreadStep(i)>>_vars)

\* a peer is inside KVM_RUN while nothing has begun to end the monitor
C2_Witness ==
  \E i \in Peers : pc[i] = "run" /\ gate >= i /\ ~Terminating

\* C3: the sregs cache is completely written by vcpu_init(0) before any
\* peer thread exists: whenever a peer has been created the boot vCPU's
\* setup_system has finished and the cache is complete, and what a peer's
\* KVM_SET_SREGS took from the cache was the complete cache.
C3_SregsPublished ==
  \A i \in Peers :
    /\ pc[i] # "unborn" =>
         (sregs = "complete" /\ hist.sregsRead[0] = "complete")
    /\ hist.sregsRead[i] \in {"none", "complete"}

\* a peer has loaded its sregs from the cache
C3_Witness ==
  \E i \in Peers : hist.sregsRead[i] = "complete" /\ pc[i] = "set_regs"

\* the teardown routine has closed descriptor fd
ClosedByTeardown(fd) == \E k \in 1 .. Len(hist.closed) : hist.closed[k] = fd

\* C4: when uhyve_exit runs on a thread T, every other vCPU thread that was
\* created has been sent SIGTERM, has been joined and has ended before the
\* VM or the KVM descriptor is closed; and once a thread is inside exit()
\* the process ends, whatever the other threads are doing at that moment
\* (at the gate, in KVM_RUN, in a hypercall, already returned).
C4_TeardownJoinsAll ==
  /\ []((ClosedByTeardown(VmFd) \/ ClosedByTeardown(KvmFd)) =>
          \A i \in Threads \ {xowner} :
             pc[i] # "unborn" =>
               (i \in hist.sigSent /\ i \in hist.joined /\ Terminated(i)))
  /\ [][(\E fd \in {VmFd, KvmFd} : fd \in openFds /\ fd \notin openFds')
          => (xowner # NoThread /\ pc[xowner] \in {"x_close_vm", "x_close_kvm"}
              /\ \A i \in Threads \ {xowner} :
                    pc[i] = "unborn" \/ Terminated(i))]_vars
  /\ (xowner # NoThread) ~> (~Running)

\* teardown has signalled and joined a peer and closed all three descriptors
C4_Witness ==
  /\ proc.st = "exited" /\ proc.by = xowner
  /\ hist.joined # {} /\ hist.joined = hist.sigSent
  /\ Len(hist.closed) = 3

\* C5, as stated: whenever the process has ended after atexit(uhyve_exit)
\* was registered, uhyve_exit has run to its end.
C5_TeardownAlwaysRuns ==
  (~Running /\ atexitRegs > 0) => (xowner # NoThread /\ pc[xowner] = "x_done")

\* a thread inside exit() stays there until the process ends or the thread
\* is ended by sig_func: it never comes back to KVM_RUN
NeverReenters ==
  [][\A t \in Threads :
       pc[t] \in ExitPcs => pc'[t] \in ExitPcs \cup {"exited"}]_vars

\* the exit() call that runs the handlers keeps its status, and the process
\* that ends through it ends with the low 8 bits of that status
ExitCallKept ==
  /\ [][xowner # NoThread =>
          (xowner' = xowner /\ xstatus' = xstatus /\ xval' = xval)]_vars
  /\ []((proc.st = "exited" /\ proc.by = xowner) =>
          proc.code = xstatus % 256)

\* C6: when KVM_RUN returns with exit reason HLT, vcpu_loop on that thread
\* returns 0 and the thread issues no further KVM_RUN; on the boot vCPU the
\* 0 is what main passes to exit(), and the process that ends through that
\* call has exit status 0.
C6_HaltReturnsZero ==
  /\ [](lastExit.out = "HLT" =>
          /\ loopRet[lastExit.t] = 0
          /\ pc[lastExit.t] = IF lastExit.t = 0 THEN "main_ret"
                               ELSE "returned")
  /\ [][\A t \in Threads :
          loopRet[t] # NoRet => pc'[t] \notin {"mp_state", "run", "io"}]_vars
  /\ [](lastExit.out = "main" => (lastExit.t = 0 /\ lastExit.arg = 0))
  /\ []((proc.st = "exited" /\ proc.by = 0 /\ loopRet[0] # NoRet) =>
          proc.code = 0)

\* the boot vCPU halted, main returned and the process ended with status 0
C6_Witness ==
  /\ proc = [st |-> "exited", code |-> 0, by |-> 0]
  /\ loopRet[0] = 0 /\ pc[0] = "x_done"

\* C7, as stated: the process that ends through the exit() of an EXIT
\* hypercall has the int stored in guest memory as its exit status.
C7_Original ==
  (proc.st = "exited" /\ proc.by = xowner /\ xval # NoArg) =>
     proc.code = xval

\* C7, amended: an EXIT hypercall calls exit() with the int stored at the
\* guest physical address of the OUT payload; the thread never re-enters
\* KVM_RUN; and the process that ends through that call has the low 8 bits
\* of that int (the int modulo 256) as its exit status.
C7_ExitStatus ==
  /\ []((lastExit.out = "IO" /\ lastExit.port = UHYVE_PORT_EXIT) =>
          /\ lastExit.arg = lastExit.val
          /\ Running => pc[lastExit.t] \in ExitPcs
          /\ lastExit.t = xowner => (xstatus = lastExit.val /\ xval = xstatus)
          /\ (proc.st = "exited" /\ proc.by = lastExit.t) =>
                proc.code = lastExit.val % 256)
  /\ []((proc.st = "exited" /\ proc.by = xowner /\ xval # NoArg) =>
          proc.code = xval % 256)
  /\ [](xval # NoArg => xstatus = xval)
  /\ NeverReenters

\* the process ended through an EXIT hypercall whose int does not fit in
\* 8 bits
C7_Witness ==
  /\ proc.st = "exited" /\ proc.by = xowner
  /\ xval = 256 /\ proc.code = 0

\* C8, as stated: after KVM_RUN has failed with EINTR the thread is back at
\* KVM_RUN and has not called exit().
C8_EintrRetried ==
  lastExit.out = "EINTR" =>
    (pc[lastExit.t] = "run" /\ lastExit.arg = NoArg /\ Running)

\* exits the monitor does not handle
Unhandled(ev) ==
  \/ ev.out \in {"MMIO", "FAIL_ENTRY", "INTERNAL_ERROR", "SHUTDOWN", "OTHER"}
  \/ ev.out = "IO" /\ ev.port # NoPort /\ ev.port \notin ServedPorts

\* C9: on every exit the monitor does not handle the thread calls exit()
\* with a non-zero status and never re-enters KVM_RUN, and the process that
\* ends through that call has a non-zero exit status.
C9_UnhandledFatal ==
  /\ [](Unhandled(lastExit) =>
          /\ lastExit.arg # NoArg /\ lastExit.arg % 256 # 0
          /\ Running => pc[lastExit.t] \in ExitPcs
          /\ lastExit.t = xowner => xstatus = lastExit.arg
          /\ (proc.st = "exited" /\ proc.by = lastExit.t) => proc.code # 0)
  /\ [][\A t \in Threads :
          (pc[t] = "run" /\ Unhandled(lastExit') /\ lastExit'.t = t
             /\ lastExit' # lastExit)
          => pc'[t] \in ExitPcs \/ proc'.st = "exited"]_vars
  /\ NeverReenters
  /\ ExitCallKept

\* a thread met an unhandled exit, ran the handlers and ended the process
C9_Witness ==
  /\ proc.st = "exited" /\ proc.by = xowner /\ proc.code = EXIT_FAILURE
  /\ pc[xowner] = "x_done" /\ vcpufd[xowner] = 0 - 1 /\ ncores > 1

\* C10, as stated: the record a hypercall handler works on lies inside the
\* guest memory region [0, guest_size).
C10_RecordsInRegion ==
  \A t \in Threads : pc[t] = "io" => InRegion(req[t], 1)

\* a vCPU exists or has existed: some thread got a descriptor from
\* KVM_CREATE_VCPU or is past that call
VcpuCreated ==
  \E t \in Threads :
     \/ vcpufd[t] = VcpuFdOf(t)
     \/ pc[t] \in {"setup_system", "setup_pt", "set_regs", "main_init_done",
                   "uhyve_loop", "spawn", "netif", "mp_state", "run", "io",
                   "main_ret", "returned"}

\* C11, as stated: when the image cannot be read or its ELF header fails a
\* check, no vCPU is created, no KVM_RUN is issued, and the process, once it
\* has ended, has exited with a non-zero status.
C11_ImageRejected ==
  (image # "none" /\ Rejected(image)) =>
     /\ ~VcpuCreated
     /\ \A t \in Threads : pc[t] \notin {"run", "io"}
     /\ ~Running => (proc.st = "exited" /\ proc.code # 0)

\* C12, as stated: when e_machine of the image is not x86-64, KVM_CREATE_VM
\* has not been issued: no VM descriptor exists.
C12_ValidationBeforeVm ==
  (image # "none" /\ ElfHeader(image).machine # EM_X86_64) =>
     (vmfd = 0 - 1 /\ VmFd \notin openFds)


\* the PT_LOAD entries of the program header table, and the first of them
LoadSegs == {k \in DOMAIN ld.phdr : ld.phdr[k].p_type = "PT_LOAD"}
FirstLoadSeg == CHOOSE k \in LoadSegs : \A j \in LoadSegs : k <= j
\* load_kernel has returned after going through the whole table
LoadCompleted == ld.pc = "returned" /\ ld.complete
\* the file ends before the end of the file part of segment k
FileShortFor(k) == ld.flen < ld.phdr[k].p_offset + ld.phdr[k].p_filesz

\* C13, as stated: after load_kernel has gone through the table, for every
\* PT_LOAD segment, the first one included, the guest bytes from p_paddr up
\* to p_paddr + p_filesz are the file bytes from p_offset on and the bytes
\* up to p_paddr + p_memsz are zero; and a file that ends before
\* p_offset + p_filesz of a segment makes the load fail.
C13_SegmentsLoaded ==
  ld.pc = "returned" =>
    /\ ld.complete =>
         \A k \in LoadSegs : \A a \in WordAddrs :
            LET h == ld.phdr[k] IN
              /\ (a >= h.p_paddr /\ a < h.p_paddr + h.p_filesz) =>
                    /\ h.p_offset + (a - h.p_paddr) < ld.flen
                    /\ ld.mem[a] = FileWord(h.p_offset + (a - h.p_paddr))
              /\ (a >= h.p_paddr + h.p_filesz /\ a < h.p_paddr + h.p_memsz)
                    => ld.mem[a] = 0
    /\ (\E k \in LoadSegs : FileShortFor(k)) => ~ld.complete

Handled(port) == hc.pc \in {"resumed", "aborted"} /\ hc.port = port
\* the handler made exactly one host call, of the given kind on fd
OneCall(kind, fd) ==
  /\ Len(hc.calls) = 1
  /\ hc.calls[1].call = kind
  /\ hc.calls[1].fd = fd

\* C15: the CLOSE handler calls close(fd) exactly when the ret field it was
\* passed is greater than 2; when it does, ret is overwritten with what
\* close returned; when it does not, the record is left as it was and no
\* host call is made nor any descriptor closed; the vCPU is resumed.
C15_CloseGated ==
  Handled(UHYVE_PORT_CLOSE) =>
    /\ hc.pc = "resumed"
    /\ (hc.in.ret > 2) <=> OneCall("close", hc.in.fd)
    /\ (hc.in.ret > 2) =>
          /\ hc.rec = [hc.in EXCEPT !.ret = hc.calls[1].res]
          /\ hc.fds = HcFds(hc.netfd) \ {hc.in.fd}
    /\ ~(hc.in.ret > 2) =>
          /\ hc.rec = hc.in
          /\ hc.calls = << >>
          /\ hc.fds = HcFds(hc.netfd)

\* a CLOSE with ret = 3 on an open descriptor, closed with result 0
C15_Witness ==
  /\ Handled(UHYVE_PORT_CLOSE)
  /\ hc.in = [fd |-> FileFd, ret |-> 3]
  /\ FileFd \notin hc.fds
  /\ hc.rec.ret = 0

\* C16, as stated: whatever the record holds, the CLOSE handler closes none
\* of the host descriptors 0, 1 and 2.
C16_StdioNeverClosed ==
  Handled(UHYVE_PORT_CLOSE) =>
    /\ {0, 1, 2} \subseteq hc.fds
    /\ \A i \in DOMAIN hc.calls :
          ~(hc.calls[i].call = "close" /\ hc.calls[i].fd \in {0, 1, 2})

\* C17: the WRITE handler makes exactly one host write, on the record's fd
\* with the record's len, stores what it returned in len and resumes the
\* vCPU: a count from 0 up to the old len when the write succeeded, and
\* the value that reads as signed -1 when it failed.
C17_WriteResult ==
  Handled(UHYVE_PORT_WRITE) =>
    /\ hc.pc = "resumed"
    /\ OneCall("write", hc.in.fd)
    /\ hc.calls[1].len = hc.in.len
    /\ hc.rec = [hc.in EXCEPT !.len = hc.calls[1].res]
    /\ (hc.calls[1].res >= 0) =>
          (hc.rec.len >= 0 /\ ULe(hc.rec.len, hc.in.len))
    /\ (hc.calls[1].res < 0) => hc.rec.len = 0 - 1

\* a WRITE of MaxXfer bytes of which the host took one less
C17_Witness ==
  /\ Handled(UHYVE_PORT_WRITE)
  /\ hc.in.len = MaxXfer
  /\ hc.rec.len = MaxXfer - 1

\* C18, as stated: the NETWRITE handler resumes the vCPU with ret = 0 only
\* if the host write transferred exactly len bytes, and after a short or a
\* failed write, a missing TAP descriptor included, the monitor aborts.
C18_NetwriteExact ==
  Handled(UHYVE_PORT_NETWRITE) =>
    LET res == hc.calls[1].res
        exact == res >= 0 /\ res = hc.in.len
    IN /\ (hc.pc = "resumed" /\ hc.rec.ret = 0) => exact
       /\ ~exact => hc.pc = "aborted"

\* C19: the NETREAD handler makes one host read on netfd and ends in one
\* of three ways: the read returned 0 or failed with EAGAIN, then ret is -1,
\* len is as it was and the vCPU is resumed; the read returned n > 0, then
\* len is n, ret is 0 and the vCPU is resumed; any other failure, then the
\* monitor aborts.
C19_NetreadOutcomes ==
  Handled(UHYVE_PORT_NETREAD) =>
    /\ OneCall("read", hc.netfd)
    /\ LET c == hc.calls[1] IN
         /\ (c.res = 0 \/ (c.res = 0 - 1 /\ c.errno = "EAGAIN")) =>
               (hc.pc = "resumed" /\ hc.rec = [hc.in EXCEPT !.ret = 0 - 1])
         /\ (c.res > 0) =>
               /\ hc.pc = "resumed"
               /\ hc.rec = [hc.in EXCEPT !.len = c.res, !.ret = 0]
         /\ (c.res < 0 /\ c.errno # "EAGAIN") => hc.pc = "aborted"

\* a NETREAD on a TAP descriptor with nothing pending
C19_Witness ==
  /\ Handled(UHYVE_PORT_NETREAD)
  /\ hc.netfd = TapFd
  /\ hc.calls[1].errno = "EAGAIN"
  /\ hc.rec.ret = 0 - 1
  /\ hc.rec.len = hc.in.len


\* positions of a peer thread inside vcpu_loop, where a network hypercall
\* of the guest makes it read netfd
InVcpuLoop == {"mp_state", "run", "io"}

\* C20, as stated: until teardown begins, the KVM, VM and TAP descriptors
\* and the mboot anchor are each assigned at most once; the KVM and VM
\* descriptors and the anchor are assigned while no peer vCPU thread
\* exists; and netfd is assigned while no peer vCPU thread is in its vCPU
\* loop, so that none serves a network hypercall before netfd holds the
\* TAP descriptor.
C20_SharedStateOrdered ==
  [][xowner = NoThread =>
       /\ (kvm # 0 - 1) => (kvm' = kvm)
       /\ (vmfd # 0 - 1) => (vmfd' = vmfd)
       /\ (mboot # "NULL") => (mboot' = mboot)
       /\ (netfd # 0 - 1) => (netfd' = netfd)
       /\ (kvm' # kvm \/ vmfd' # vmfd \/ mboot' # mboot) =>
             \A t \in Threads \ {0} : pc[t] = "unborn"
       /\ (netfd' # netfd) =>
             \A t \in Threads \ {0} : pc[t] \notin InVcpuLoop]_vars


\* the vCPU descriptors KVM_CREATE_VCPU has handed out and nobody closed
OpenVcpuFds == {VcpuFdOf(t) : t \in Threads} \cap openFds

\* C21, as stated: when teardown has completed, every vCPU descriptor the
\* monitor created has been released: by its thread on return from the
\* dispatch loop, by the SIGTERM handler, or by teardown itself.
C21_VcpuFdsReleased ==
  (\E t \in Threads : pc[t] = "x_done") => OpenVcpuFds = {}


\* C22: the static sregs is written only by vCPU 0 inside its setup_system,
\* it goes through its stages once and is never written again; and every
\* KVM_SET_SREGS, of the boot vCPU and of every peer, passes the values of
\* the completed setup, with CR3 equal to BOOT_PML4.
C22_SregsOnce ==
  /\ [](\A t \in Threads :
          hist.sregsRead[t] # "none" =>
             /\ SregsValue(hist.sregsRead[t]) = SregsValue("complete")
             /\ SregsValue(hist.sregsRead[t]).cr3 = BOOT_PML4
             /\ SregsValue(hist.sregsRead[t]).gdt_base = BOOT_GDT)
  /\ [][sregs' # sregs =>
          /\ pc[0] \in {"setup_system", "setup_pt"}
          /\ pc'[0] # pc[0]
          /\ sregs # "complete"
          /\ \A i \in Peers : pc[i] = "unborn"]_vars

\* the boot vCPU and a peer have both loaded their sregs, and the peer is
\* in KVM_RUN
C22_Witness ==
  \E i \in Peers :
     /\ hist.sregsRead[0] = "complete"
     /\ hist.sregsRead[i] = "complete"
     /\ pc[i] = "run"


\* C23: signal(SIGTERM, sig_func) and atexit(uhyve_exit) are each called
\* once, the first as the first step of uhyve_init and the second right
\* after it, and both have been called whenever a peer thread exists and
\* whenever the main thread has gone on to set up its vCPU.
C23_HandlersFirst ==
  /\ sigInstalls = (IF pc[0] = "signal" THEN 0 ELSE 1)
  /\ atexitRegs = (IF pc[0] \in {"signal", "atexit"} THEN 0 ELSE 1)
  /\ \A i \in Peers :
        pc[i] # "unborn" => (sigInstalls = 1 /\ atexitRegs = 1)

\* a peer thread has just been created, the main thread is still in the
\* loop that creates the peers
C23_Witness ==
  \E i \in Peers :
     /\ pc[i] = "gate" /\ pc[0] = "spawn"
     /\ sigInstalls = 1 /\ atexitRegs = 1


\* the main thread has left the loop of uhyve_loop that creates the peers
SpawnDone == pc[0] \in {"netif", "mp_state", "run", "io", "main_ret"}

C25_GuestSizeChecked ==
  (\E t \in Threads : pc[t] \in {"run", "io"}) =>
     /\ guest_size % GUEST_PAGE_SIZE = 0
     /\ guest_size <= MaxPdeEntries * GUEST_PAGE_SIZE
     /\ guest_size < KVM_32BIT_GAP_START

\* the boot vCPU is inside KVM_RUN on a guest of the default size
C25_Witness == pc[0] = "run" /\ guest_size = DefaultGuestSize


\* the assert of uhyve_init has been evaluated on cfg.guest_size, and it
\* held
GapChecked == cfg.pc \in {"sized", "accepted", "aborted"}
GapPassed == cfg.pc \in {"sized", "accepted"} \/ cfg.by = "pages"

\* C26, as stated: the check lets a guest size through exactly when it is
\* below 0xC0000000.
C26_Original ==
  GapChecked => (GapPassed <=> Less(cfg.guest_size, Shl(Bits(3), 30)))

\* C26, amended: the check lets a guest size through exactly when it is
\* below KVM_32BIT_GAP_SIZE = 768 << 20 = 0x30000000.
C26_GapCheck ==
  GapChecked => (GapPassed <=> Less(cfg.guest_size, Shl(Bits(768), 20)))

\* HERMIT_MEM = 768M, the smallest size the check rejects
C26_Witness ==
  /\ cfg.pc = "aborted" /\ cfg.by = "gap"
  /\ cfg.str = [num |-> 768, suffix |-> "M"]
  /\ cfg.guest_size = Bits(805306368)

\* the place of a size letter in K, M, G, T, P, E; 0 for no letter
SuffixRank(c) ==
  CASE c \in {"K", "k"} -> 1 [] c \in {"M", "m"} -> 2
    [] c \in {"G", "g"} -> 3 [] c \in {"T", "t"} -> 4
    [] c \in {"P", "p"} -> 5 [] c \in {"E", "e"} -> 6 [] OTHER -> 0

\* C27: for HERMIT_MEM holding the number n followed by the k-th letter of
\* K, M, G, T, P, E in either case, or by nothing (k = 0), guest_size after
\* memparse is n * 2^(10k) modulo 2^64: n shifted left by 10k bits within
\* 64 bits, which for small n and k is the number n * 1024^k; and "2M"
\* gives 2 * 1024 * 1024.
C27_MemparseValue ==
  (cfg.pc = "parsed" /\ cfg.str # MemUnset /\ cfg.str.suffix # "X") =>
    LET n == cfg.str.num
        k == SuffixRank(cfg.str.suffix)
    IN /\ (cfg.str.suffix = "") <=> (k = 0)
       /\ cfg.guest_size = Shl(Bits(n), 10 * k)
       /\ (n <= 1024 /\ k <= 2) => cfg.guest_size = Bits(n * (1024 ^ k))
       /\ (n = 2 /\ cfg.str.suffix = "M")
             => cfg.guest_size = Bits(2 * 1024 * 1024)

\* HERMIT_MEM = 17e: 17 * 2^60 exceeds 64 bits and 2^60 is left
C27_Witness ==
  /\ cfg.pc = "parsed"
  /\ cfg.str = [num |-> 17, suffix |-> "e"]
  /\ cfg.guest_size = {60}

\* C28, as stated: a HERMIT_MEM with a character after the number that is
\* no size letter, or with a size at or above the PCI gap, never gets past
\* the monitor's checks on guest_size.
C28_BadConfigFatal ==
  (cfg.pc = "accepted") =>
     /\ cfg.str.suffix # "X"
     /\ Less(cfg.guest_size, Bytes(KVM_32BIT_GAP_START))


\* the place of a descriptor in the order vCPU, VM, KVM
TeardownRank(fd) == IF fd = VmFd THEN 2 ELSE IF fd = KvmFd THEN 3 ELSE 1

\* the place of a descriptor in the order VM, vCPU, KVM
StatedRank(fd) == IF fd = VmFd THEN 1 ELSE IF fd = KvmFd THEN 3 ELSE 2

\* the descriptor closed by the step, when the step is a close of teardown
LastClosed == hist.closed'[Len(hist.closed')]

PastGate(t) ==
  pc[t] \in {"write_id", "create_vcpu", "setup_system", "set_regs",
             "mp_state"}

\* thread t has stored its id at mboot + 0x30 and has not yet issued its
\* first KVM_RUN
IdWritten(t) ==
  pc[t] \in {"create_vcpu", "setup_system", "set_regs", "mp_state"}

SigFuncStep(t) == sigPending[t] /\ ~sigPending'[t] /\ pc'[t] = "exited"

\* the step is the first close of uhyve_exit, run by thread t
TeardownVcpuStep(t) == pc[t] = "x_close_vcpu" /\ pc'[t] # pc[t]

\* C31, as stated: a step of the SIGTERM handler or of teardown's close of
\* the thread's vCPU handle takes no descriptor from the table other than
\* the one KVM_CREATE_VCPU returned for that thread; descriptors 0, 1 and 2
\* stay.
C31_StdioKeptByHandlers ==
  [][\A t \in Threads :
       (SigFuncStep(t) \/ TeardownVcpuStep(t)) =>
          /\ (openFds \ openFds') \subseteq {VcpuFdOf(t)}
          /\ (openFds \cap StdFds) \subseteq openFds']_vars


\* two extents have a byte in common
Overlap(e, f) == e.lo < f.hi /\ f.lo < e.hi

\* C32, as stated: every store made into guest memory by load_kernel and
\* by the boot vCPU's setup lies inside [0, guest_size), and no store to
\* the GDT or the page tables covers a byte of the loaded segment or of
\* its zero fill.
C32_WritesInsideGuest ==
  /\ \A e \in lay.writes : e.hi <= lay.guest_size
  /\ \A e, f \in lay.writes :
        (e.by \in {"gdt", "page_tables"} /\ f.by \in {"segment", "zero_fill"})
           => ~Overlap(e, f)


\* the handler taken alone on guest memory has finished
FrHandled == fr.pc \in {"resumed", "aborted"}

\* the cells of the record the guest passed
RecordCells ==
  {FieldAddr(fr.port, fr.data, f) :
     f \in {RecordFields(fr.port)[i] : i \in DOMAIN RecordFields(fr.port)}}

\* the result fields named for each handler
ResultFields(port) ==
  CASE port = UHYVE_PORT_WRITE -> {"len"}
    [] port = UHYVE_PORT_LSEEK -> {"offset"}
    [] port = UHYVE_PORT_NETREAD -> {"len", "ret"}
    [] OTHER -> {"ret"}
ResultCells == {FieldAddr(fr.port, fr.data, f) : f \in ResultFields(fr.port)}

\* field f of the record as the guest passed it
OldField(f) == fr.old[FieldAddr(fr.port, fr.data, f)]

\* the cells of the buffer the record named, for READ and NETREAD
BufferCells ==
  IF fr.port = UHYVE_PORT_READ
  THEN {a \in DOMAIN fr.mem :
          a >= OldField("buf")
          /\ a < OldField("buf") + XferCount(OldField("len"))}
  ELSE IF fr.port = UHYVE_PORT_NETREAD
  THEN {a \in DOMAIN fr.mem :
          a >= OldField("data")
          /\ a < OldField("data") + XferCount(OldField("len"))}
  ELSE {}

\* the result field holds what the handler's host call gave, at resume
ResultWritten ==
  CASE fr.port \in {UHYVE_PORT_WRITE, UHYVE_PORT_LSEEK} ->
         \A f \in ResultFields(fr.port) : FrField(f) = fr.res
    [] fr.port \in {UHYVE_PORT_OPEN, UHYVE_PORT_READ} ->
         FrField("ret") = fr.res
    [] fr.port = UHYVE_PORT_NETWRITE ->
         FrField("ret") = 0 /\ fr.res = OldField("len")
    [] OTHER ->
         \/ FrField("ret") = 0 - 1 /\ fr.res <= 0
         \/ FrField("ret") = 0 /\ FrField("len") = fr.res /\ fr.res > 0

\* C33, as stated: when a WRITE, OPEN, READ, LSEEK, NETWRITE or NETREAD
\* handler has finished, every field of its record other than its result
\* field, the gate counter and the vCPU's registers are as they were when
\* it was entered, and at resume the result field has been written.
C33_Original ==
  FrHandled =>
    /\ \A a \in (RecordCells \cup {GateCell}) \ ResultCells :
          fr.mem[a] = fr.old[a]
    /\ fr.regs = FrStart(fr.port, <<>>).regs
    /\ fr.pc = "resumed" => ResultWritten

\* C33, amended: when such a handler has finished, every cell of guest
\* memory outside its result field and, for READ and NETREAD, outside the
\* buffer its record named is as it was when the handler was entered, so
\* are the vCPU's registers, and at resume the result field has been
\* written; a record field or the gate counter that lies inside the named
\* buffer takes the bytes read.
C33_HandlerFrame ==
  FrHandled =>
    /\ \A a \in DOMAIN fr.mem \ (ResultCells \cup BufferCells) :
          fr.mem[a] = fr.old[a]
    /\ fr.regs = FrStart(fr.port, <<>>).regs
    /\ fr.pc = "resumed" => ResultWritten

\* a READ whose buffer is its own record: fd and buf hold bytes of the file
C33_Witness ==
  /\ fr.pc = "resumed" /\ fr.port = UHYVE_PORT_READ
  /\ OldField("buf") = RecAddr /\ fr.res = MaxXfer
  /\ FrField("fd") = FileData /\ FrField("buf") = FileData
  /\ FrField("len") = OldField("len") /\ FrField("ret") = MaxXfer

====
